---- MODULE Spec2Model ----
(***************************************************************************)
(* cathyAI: the character directory service (characters_api/app.py), the   *)
(* consumer's ETag caches and its streaming delta reconstruction           *)
(* (webbui_chat app.py), as state machines.                                *)
(*                                                                         *)
(* Strings are sequences over Alphabet.  A digest (sha256) is modelled by  *)
(* its argument: two digests are equal exactly when their inputs are.      *)
(***************************************************************************)
EXTENDS Integers, Sequences, FiniteSets, TLC

\* ------------------------------------------------------------------ bounds
\* lines read from one streaming response
MaxLines == 3
\* the clock, in half seconds
MaxClock == 2
\* the calls made on the user database
MaxCalls == 3
\* writes and deletions of files in one run
MaxEdits == 1
\* revisions of the directory the list requests can see
MaxVersion == 2
\* length of a cumulative content string (the strings of the worked examples
\* are drawn besides)
MaxStrLen == 2

None == "None"

Alphabet == {1, 2}
\* The strings of the delta-reconstruction examples: "Hi", "Hi there",
\* "Hi there!" grow by one piece each; "Hello" and "Bye" share no prefix.
Hi == <<1>>
HiThere == <<1, 2>>
HiThereBang == <<1, 2, 1>>
Hello == <<1>>
Bye == <<2>>
Strs == UNION {[1..n -> Alphabet] : n \in 0..MaxStrLen}
            \cup {Hi, HiThere, HiThereBang, Hello, Bye}

VARIABLES
    \* ---- stream_chat (one generation) ----
    chatUrlSet,   \* CHAT_API_URL is configured
    spc,          \* position of the generator: new, streaming, fallback, done, raised
    last,         \* last-seen cumulative content
    yields,       \* the values yielded to the caller, in order
    nlines,       \* the number of lines read from the streaming response
    line,         \* the line read last (NoLine: none yet)
    events,       \* the cumulative contents received, in order
    posts,        \* the POST requests issued (the payload of each)
    streamErr,    \* how the streaming request failed (None: it has not)
    fb,           \* the fallback response (NoFallback: none received)
    raised,       \* the exception raised to the caller (None: none)
    \* ---- the directory service's files ----
    clock,        \* the time, in half seconds
    files,        \* path -> [exists, mtime (half seconds), content]
    edits,        \* the number of writes and deletions so far
    \* ---- one requester of the directory service ----
    req,          \* the request answered last (NoReq: a file changed since)
    resp,         \* its response
    held,         \* the ETag the requester keeps (<<>>: none)
    \* ---- the chat UI's fetch of one character's private view ----
    CHAR_PRIVATE_ETAGS,  \* id -> <<>> (no entry) or <<etag>>
    CHAR_PRIVATE_CACHE,  \* id -> <<>> (no entry) or <<body>>
    fpc,          \* the call's position: idle, await1, await2, done
    fid,          \* the id the call is for
    gets,         \* the GETs the call has issued, in order
    answers,      \* what came back for them, in order
    fres,         \* how the call ended (NoResult: it has not)
    cachedAt,     \* (history) id -> <<>> or <<the files as they were when the cached record was sent>>
    \* ---- the chat UI's character list and its persisted cache ----
    charUrlSet,   \* CHAR_API_URL is configured
    version,      \* the revision of the directory the service serves
    etagFile,     \* CHAR_CACHE_ETAG_PATH: <<>> (no file) or <<text>>
    payloadFile,  \* CHAR_CACHE_PATH: <<>> (no file) or <<text>>
    lpc,          \* process -> position: idle, await, answered, etag_saved, done
    lreq,         \* process -> the If-None-Match of its GET in flight
    lresp,        \* process -> the response to its last GET (NoListResp: none yet)
    CHAR_LIST,    \* process -> the list the process holds in memory
    lres,         \* process -> how its handler ended
    \* ---- one call of a function of the directory service ----
    pfn,          \* the function called ("none": no call)
    pargs,        \* its arguments
    pout,         \* <<>> before it returns, <<value>> after
    \* ---- the directory service's configuration ----
    API_KEY,      \* CHAR_API_KEY of the service's environment ("" when unset)
    \* ---- the user database (users.py) and the calls in progress on it ----
    users,        \* table users: username -> NoUser or the row
    invites,      \* table invites: code -> NoInvite or the row
    upc,          \* process -> position of its call: idle, cu_user, cu_invite, cu_write, vu_select, vu_stamp
    ucall,        \* process -> the call it is in or was last in
    ures,         \* process -> what that call returned or raised (NoResult: not yet)
    ncalls,       \* the number of calls made
    createdBy,    \* (history) username -> <<>> or <<the create_user call that made the row>>
    toggled,      \* (history) username -> the successful disable_user / enable_user calls, in order
    \* ---- the chat sessions of one chat UI process and its HTTP client ----
    client,       \* the module's httpx.AsyncClient: open or closed
    sess          \* session -> its state (none, active, ended) and how its last request went

streamVars == <<chatUrlSet, spc, last, yields, nlines, line, events, posts, streamErr, fb, raised>>

fileVars == <<clock, files, edits>>
serverVars == <<req, resp, held>>
fetchVars == <<CHAR_PRIVATE_ETAGS, CHAR_PRIVATE_CACHE, fpc, fid, gets, answers, fres, cachedAt>>
listVars == <<charUrlSet, version, etagFile, payloadFile, lpc, lreq, lresp, CHAR_LIST, lres>>
callVars == <<pfn, pargs, pout>>
configVars == <<API_KEY>>
userVars == <<users, invites, upc, ucall, ures, ncalls, createdBy, toggled>>
sessionVars == <<client, sess>>
nonStreamVars == <<fileVars, serverVars, fetchVars, listVars, callVars, configVars, userVars, sessionVars>>

vars == <<streamVars, fileVars, serverVars, fetchVars, listVars, callVars, configVars, userVars, sessionVars>>

\* ------------------------------------------------------- string helpers
\* str.startswith
StartsWith(s, p) == Len(p) <= Len(s) /\ SubSeq(s, 1, Len(p)) = p
\* s[n:]
DropPrefix(s, n) == SubSeq(s, n + 1, Len(s))

\* ------------------------------------------------------ stream_chat
\* The body of a line once the optional "data: " marker is set aside:
\*   blank    only whitespace
\*   done     the literal [DONE]
\*   bad      not valid JSON
\*   nonobj   valid JSON that is not an object (a number, a list, a string)
\*   content  a JSON object whose message.content is the string text
\*   token    a JSON object with no message.content and a "token" key (text)
\*   other    a JSON object with neither
Tokens == {<<>>, <<2>>}
Payloads ==
    {[kind |-> k, text |-> <<>>] : k \in {"blank", "done", "bad", "nonobj", "other"}}
    \cup [kind : {"content"}, text : Strs]
    \cup [kind : {"token"}, text : Tokens]
Lines == [sse : BOOLEAN, body : Payloads]
NoLine == [sse |-> FALSE, body |-> [kind |-> "none", text |-> <<>>]]

Models == {"m1", "m2"}
Messages == "history"
Replies == {<<>>, <<1>>}

\* `not line.strip()`: a line with the data marker is never blank
IsBlankLine(l) == ~l.sse /\ l.body.kind = "blank"
\* after `line = line[6:]`: the text compared with "[DONE]"
IsDoneLine(l) == l.body.kind = "done"
\* json.loads raises JSONDecodeError (an empty or blank remainder does too)
JsonFails(l) == l.body.kind \in {"bad", "blank"}

\* The answer to the non-streaming fallback request:
\*   failed   the request raised (timeout, connection error, error status,
\*            a body that is not JSON)
\*   noreply  a 2xx JSON body without a "reply" key
\*   reply    a 2xx JSON body with "reply"
NoFallback == [state |-> "none", reply |-> <<>>]
FallbackResponses ==
    {[state |-> "failed", reply |-> <<>>], [state |-> "noreply", reply |-> <<>>]}
    \cup {[state |-> "reply", reply |-> r] : r \in Replies}

\* (variant: the slice is taken without the startswith test)
DeltaOf_AlwaysSlice(content, prev) == DropPrefix(content, Len(prev))

\* (variant: the whole content is taken as the delta)
DeltaOf_Whole(content, prev) == content

DeltaOf(content, prev) ==
    IF StartsWith(content, prev) THEN DropPrefix(content, Len(prev)) ELSE content

StreamInit ==
    /\ chatUrlSet \in BOOLEAN
    /\ spc = "new"
    /\ last = <<>>
    /\ yields = <<>>
    /\ nlines = 0
    /\ line = NoLine
    /\ events = <<>>
    /\ posts = <<>>
    /\ streamErr = None
    /\ fb = NoFallback
    /\ raised = None

Payload(model, stream) == [model |-> model, messages |-> Messages, stream |-> stream]

\* The except clauses of stream_chat, by the kind of exception raised inside
\* the try block:
\*   timeout    httpx.TimeoutException   -> raise Exception("Request timed out")
\*   status     httpx.HTTPStatusError    -> the non-streaming fallback
\*   any other  (transport error, AttributeError)  -> no clause: it propagates
\* (variant: a timeout is handled like an HTTP status error)
ExceptClause_TimeoutRecovers(err) ==
    CASE err \in {"timeout", "status"} -> "fallback"
      [] OTHER -> "propagate"

\* (variant: a transport error is handled like an HTTP status error)
ExceptClause_TransportRecovers(err) ==
    CASE err = "timeout" -> "raise_timeout"
      [] err \in {"status", "transport"} -> "fallback"
      [] OTHER -> "propagate"

\* (variant: one handler for every failure of the streaming request)
ExceptClause_CatchAll(err) == "fallback"

ExceptClause(err) ==
    CASE err = "timeout" -> "raise_timeout"
      [] err = "status" -> "fallback"
      [] OTHER -> "propagate"

\* (variant: the fallback request repeats the streaming payload unchanged)
OnException_SamePayload(err, ps) ==
    CASE ExceptClause(err) = "raise_timeout" ->
           [spc |-> "raised", raised |-> "Request timed out", posts |-> ps]
      [] ExceptClause(err) = "fallback" ->
           [spc |-> "fallback", raised |-> None, posts |-> Append(ps, ps[1])]
      [] ExceptClause(err) = "propagate" ->
           [spc |-> "raised", raised |-> err, posts |-> ps]

\* What an exception of kind err does once ps have been posted: the new
\* position, the exception raised to the caller and the requests issued.
OnException(err, ps) ==
    CASE ExceptClause(err) = "raise_timeout" ->
           [spc |-> "raised", raised |-> "Request timed out", posts |-> ps]
      [] ExceptClause(err) = "fallback" ->
           [spc |-> "fallback", raised |-> None,
            posts |-> Append(ps, [ps[1] EXCEPT !.stream = FALSE])]
      [] ExceptClause(err) = "propagate" ->
           [spc |-> "raised", raised |-> err, posts |-> ps]

\* The generator is started: the URL check, then the streaming POST and its
\* outcome (the status line), up to the first line read or the fallback POST.
StreamStart(model, outcome) ==
    /\ spc = "new"
    /\ IF ~chatUrlSet
       THEN /\ spc' = "raised"
            /\ raised' = "CHAT_API_URL not configured"
            /\ UNCHANGED <<posts, streamErr>>
       ELSE IF outcome = "ok"
       THEN /\ spc' = "streaming"
            /\ posts' = <<Payload(model, TRUE)>>
            /\ UNCHANGED <<raised, streamErr>>
       ELSE /\ streamErr' = outcome
            /\ spc' = OnException(outcome, <<Payload(model, TRUE)>>).spc
            /\ raised' = OnException(outcome, <<Payload(model, TRUE)>>).raised
            /\ posts' = OnException(outcome, <<Payload(model, TRUE)>>).posts
    /\ UNCHANGED <<chatUrlSet, last, yields, nlines, line, events, fb>>
    /\ UNCHANGED nonStreamVars

\* (variant: a [DONE] line is passed over like an unparseable line)
LineStep_DoneSkipped(l, prev) ==
    CASE IsBlankLine(l) \/ IsDoneLine(l) \/ JsonFails(l) ->
           [ctl |-> "continue", last |-> prev, out |-> <<>>]
      [] l.body.kind = "nonobj" ->
           [ctl |-> "raise", last |-> prev, out |-> <<>>]
      [] l.body.kind = "content" ->
           [ctl |-> "continue", last |-> l.body.text,
            out |-> IF DeltaOf(l.body.text, prev) # <<>>
                    THEN <<DeltaOf(l.body.text, prev)>> ELSE <<>>]
      [] l.body.kind = "token" ->
           [ctl |-> "continue", last |-> prev, out |-> <<l.body.text>>]
      [] l.body.kind = "other" ->
           [ctl |-> "continue", last |-> prev, out |-> <<>>]

\* (variant: an unparseable line resets the last-seen content)
LineStep_BadResets(l, prev) ==
    CASE IsBlankLine(l) ->
           [ctl |-> "continue", last |-> prev, out |-> <<>>]
      [] ~IsBlankLine(l) /\ IsDoneLine(l) ->
           [ctl |-> "break", last |-> prev, out |-> <<>>]
      [] ~IsBlankLine(l) /\ ~IsDoneLine(l) /\ JsonFails(l) ->
           [ctl |-> "continue", last |-> <<>>, out |-> <<>>]
      [] l.body.kind = "nonobj" ->
           [ctl |-> "raise", last |-> prev, out |-> <<>>]
      [] l.body.kind = "content" ->
           [ctl |-> "continue", last |-> l.body.text,
            out |-> IF DeltaOf(l.body.text, prev) # <<>>
                    THEN <<DeltaOf(l.body.text, prev)>> ELSE <<>>]
      [] l.body.kind = "token" ->
           [ctl |-> "continue", last |-> prev, out |-> <<l.body.text>>]
      [] l.body.kind = "other" ->
           [ctl |-> "continue", last |-> prev, out |-> <<>>]

\* The loop body for one line l with last-seen content prev: what it does to
\* the loop (go on, break, raise), the new last-seen content and the values
\* it yields.
LineStep(l, prev) ==
    CASE IsBlankLine(l) ->
           [ctl |-> "continue", last |-> prev, out |-> <<>>]
      [] ~IsBlankLine(l) /\ IsDoneLine(l) ->
           [ctl |-> "break", last |-> prev, out |-> <<>>]
      [] ~IsBlankLine(l) /\ ~IsDoneLine(l) /\ JsonFails(l) ->
           [ctl |-> "continue", last |-> prev, out |-> <<>>]
      [] l.body.kind = "nonobj" ->
           [ctl |-> "raise", last |-> prev, out |-> <<>>]
      [] l.body.kind = "content" ->
           [ctl |-> "continue", last |-> l.body.text,
            out |-> IF DeltaOf(l.body.text, prev) # <<>>
                    THEN <<DeltaOf(l.body.text, prev)>> ELSE <<>>]
      [] l.body.kind = "token" ->
           [ctl |-> "continue", last |-> prev, out |-> <<l.body.text>>]
      [] l.body.kind = "other" ->
           [ctl |-> "continue", last |-> prev, out |-> <<>>]

\* One line of the streaming response is read and processed.
StreamLine(l) ==
    /\ spc = "streaming"
    /\ nlines < MaxLines
    /\ nlines' = nlines + 1
    /\ line' = l
    /\ events' = IF l.body.kind = "content" THEN Append(events, l.body.text) ELSE events
    /\ last' = LineStep(l, last).last
    /\ yields' = yields \o LineStep(l, last).out
    /\ CASE LineStep(l, last).ctl = "continue" ->
              UNCHANGED <<spc, raised, streamErr, posts>>
         [] LineStep(l, last).ctl = "break" ->
              /\ spc' = "done"
              /\ UNCHANGED <<raised, streamErr, posts>>
         [] LineStep(l, last).ctl = "raise" ->
              /\ streamErr' = "attribute"
              /\ spc' = OnException("attribute", posts).spc
              /\ raised' = OnException("attribute", posts).raised
              /\ posts' = OnException("attribute", posts).posts
    /\ UNCHANGED <<chatUrlSet, fb>>
    /\ UNCHANGED nonStreamVars

\* The backend closes the connection: aiter_lines is exhausted.
StreamClose ==
    /\ spc = "streaming"
    /\ spc' = "done"
    /\ UNCHANGED <<chatUrlSet, last, yields, nlines, line, events, posts, streamErr, fb, raised>>
    /\ UNCHANGED nonStreamVars

\* Reading the next line fails: a read timeout, or another transport error.
StreamReadFails(err) ==
    /\ spc = "streaming"
    /\ streamErr' = err
    /\ spc' = OnException(err, posts).spc
    /\ raised' = OnException(err, posts).raised
    /\ posts' = OnException(err, posts).posts
    /\ UNCHANGED <<chatUrlSet, last, yields, nlines, line, events, fb>>
    /\ UNCHANGED nonStreamVars

\* (variant: the reply is yielded character by character)
FallbackOut_Split(r) ==
    IF r.state = "reply" THEN [i \in 1..Len(r.reply) |-> <<r.reply[i]>>] ELSE <<>>

\* (variant: the reply field is yielded whether it is there or not)
FallbackOut_YieldsMissing(r) == IF r.state = "reply" THEN <<r.reply>> ELSE <<<<>>>>

\* What the fallback's answer makes the generator yield.
FallbackOut(r) == IF r.state = "reply" THEN <<r.reply>> ELSE <<>>

\* The non-streaming fallback request is answered.
StreamFallback(r) ==
    /\ spc = "fallback"
    /\ fb' = r
    /\ IF r.state = "failed"
       THEN /\ spc' = "raised"
            /\ raised' = "FallbackError"
            /\ UNCHANGED yields
       ELSE /\ spc' = "done"
            /\ yields' = yields \o FallbackOut(r)
            /\ UNCHANGED raised
    /\ UNCHANGED <<chatUrlSet, last, nlines, line, events, posts, streamErr>>
    /\ UNCHANGED nonStreamVars

\* main: the caller shows the chat error message when stream_chat raises.
UserSeesChatError == spc = "raised"

StreamNext ==
    \/ \E m \in Models, o \in {"ok", "timeout", "status", "transport"} : StreamStart(m, o)
    \/ \E l \in Lines : StreamLine(l)
    \/ StreamClose
    \/ \E o \in {"timeout", "transport"} : StreamReadFails(o)
    \/ \E r \in FallbackResponses : StreamFallback(r)

\* ================================================= the directory service
\* ---------------------------------------------------------- filesystem
\* A path is <<directory, file name>>.  CHAR_DIR holds one <id>.json per
\* character, PROMPT_DIR the system-prompt and append-rules texts, INFO_DIR
\* the background texts, AVATAR_DIR the images.
CHAR_DIR == "characters"
PROMPT_DIR == "system_prompt"
INFO_DIR == "character_info"
AVATAR_DIR == "avatars"

CharIds == {"bo", "cat"}
ConfigName(id) == IF id = "cat" THEN "cat.json" ELSE "bo.json"
ConfigPath(id) == <<CHAR_DIR, ConfigName(id)>>
PromptPath == <<PROMPT_DIR, "p.txt">>
RulesPath == <<PROMPT_DIR, "r.txt">>
InfoPath == <<INFO_DIR, "i.txt">>
AvatarPath == <<AVATAR_DIR, "v.png">>
Paths == {ConfigPath(id) : id \in CharIds} \cup {PromptPath, RulesPath, InfoPath, AvatarPath}

\* The contents a file may be given.  ConfigTexts are the texts of a
\* configuration file ("bad" is not valid JSON); the others are plain texts.
ConfigTexts == {"full", "full2", "inline", "bad"}
ContentsOf(path) ==
    CASE path[1] = CHAR_DIR -> ConfigTexts
      [] path = PromptPath -> {"P1", "P2", "P1 "}
      [] path = RulesPath -> {"R1", "R2"}
      [] path = InfoPath -> {"I1", "I2"}
      [] path = AvatarPath -> {"img1", "img2"}

\* st_size of a file holding the content
SizeOf(content) ==
    CASE content \in {"full", "full2"} -> 9
      [] content = "inline" -> 6
      [] content = "bad" -> 4
      [] content = "P1 " -> 3
      [] content \in {"img1", "img2"} -> 7
      [] OTHER -> 2

NoFile == [exists |-> FALSE, mtime |-> 0, content |-> ""]
Stat(fs, path) == IF path \in DOMAIN fs THEN fs[path] ELSE NoFile
\* path.exists() and path.is_file()
IsFile(fs, path) == Stat(fs, path).exists

\* ------------------------------------------------------------- strings
Null == "<null>"
\* str.strip
Strip(v) ==
    CASE v = "P1 " -> "P1"
      [] v = " Cat " -> "Cat"
      [] v = " You are Bo " -> "You are Bo"
      [] v = " " -> ""
      [] OTHER -> v
\* str.lower
Lower(v) ==
    CASE v = "Cat" -> "cat"
      [] v = "CAT" -> "cat"
      [] v = "Bo" -> "bo"
      [] v = "Kitty" -> "kitty"
      [] OTHER -> v

\* --------------------------------------------------------- raw records
\* json.loads of a configuration text: the fields of the record.  A field a
\* record lacks is not in its domain (dict.get gives None).
ConfigOf(text) ==
    CASE text \in {"full", "full2"} ->
           [name |-> "Cat", nickname |-> "Cat", avatar |-> "v.png", model |-> "m1",
            greeting |-> IF text = "full" THEN "Hi" ELSE "Yo",
            system_prompt |-> "p.txt", character_background |-> "i.txt",
            matrix |-> [append_rules |-> "r.txt", aliases |-> <<"Kitty", "cat">>],
            secrets |-> "token-123"]
      [] text = "inline" ->
           [name |-> "Bo", model |-> "m2", greeting |-> " ",
            system_prompt |-> " You are Bo ", nicknames |-> <<"Bo", "bo">>]
Parses(text) == text \in {"full", "full2", "inline"}

\* dict.get for a string field: the value, or Null
Get(data, k) == IF k \in DOMAIN data THEN data[k] ELSE Null
\* isinstance(v, str) and v.strip()
IsText(v) == v # Null /\ Strip(v) # ""
\* the list under k, or the empty list when k is absent
GetList(data, k) == IF k \in DOMAIN data THEN data[k] ELSE <<>>
HasMatrix(data) == "matrix" \in DOMAIN data

\* ------------------------------------------------------- fingerprints
\* int(st.st_mtime): the whole seconds of a time given in half seconds
IntSeconds(t) == t \div 2

\* (variant: the fingerprint leaves the size out)
file_fingerprint_NoSize(fs, path) ==
    IF Stat(fs, path).exists
    THEN [name |-> path[2], missing |-> FALSE,
          mtime |-> IntSeconds(Stat(fs, path).mtime), size |-> 0]
    ELSE [name |-> path[2], missing |-> TRUE, mtime |-> 0, size |-> 0]

\* (variant: the fingerprint also depends on what the file holds)
file_fingerprint_Content(fs, path) ==
    IF Stat(fs, path).exists
    THEN [name |-> path[2], missing |-> FALSE, mtime |-> IntSeconds(Stat(fs, path).mtime),
          size |-> SizeOf(Stat(fs, path).content), content |-> Stat(fs, path).content]
    ELSE [name |-> path[2], missing |-> TRUE, mtime |-> 0, size |-> 0]

file_fingerprint(fs, path) ==
    IF Stat(fs, path).exists
    THEN [name |-> path[2], missing |-> FALSE,
          mtime |-> IntSeconds(Stat(fs, path).mtime), size |-> SizeOf(Stat(fs, path).content)]
    ELSE [name |-> path[2], missing |-> TRUE, mtime |-> 0, size |-> 0]

\* The fingerprint of the file a field refers to, when that file exists
RefPart(fs, v, dir) ==
    IF IsText(v) /\ IsFile(fs, <<dir, Strip(v)>>)
    THEN <<file_fingerprint(fs, <<dir, Strip(v)>>)>>
    ELSE <<>>

\* The quoted sha256 hex digest of the joined parts, as the parts it is taken of
Digest(parts) == [sha256 |-> parts]

\* (variant: the ETag is taken of the config file alone)
compute_character_etag_ConfigOnly(fs, char_path, data) ==
    Digest(<<file_fingerprint(fs, char_path)>>)

compute_character_etag(fs, char_path, data) ==
    Digest(<<file_fingerprint(fs, char_path)>>
           \o RefPart(fs, Get(data, "system_prompt"), PROMPT_DIR)
           \o RefPart(fs, Get(data, "character_background"), INFO_DIR)
           \o (IF HasMatrix(data)
               THEN RefPart(fs, Get(data["matrix"], "append_rules"), PROMPT_DIR)
               ELSE <<>>))

\* sorted(CHAR_DIR.glob("*.json")): the ids whose file exists, in name order
SortedIds(fs) ==
    (IF IsFile(fs, ConfigPath("bo")) THEN <<"bo">> ELSE <<>>)
    \o (IF IsFile(fs, ConfigPath("cat")) THEN <<"cat">> ELSE <<>>)

compute_char_list_etag(fs) ==
    Digest([i \in 1..Len(SortedIds(fs)) |-> file_fingerprint(fs, ConfigPath(SortedIds(fs)[i]))])

\* ---------------------------------------------------- character resolver
maybe_resolve_file(fs, v, dir) ==
    IF ~IsText(v) THEN ""
    ELSE IF IsFile(fs, <<dir, Strip(v)>>)
    THEN Strip(Stat(fs, <<dir, Strip(v)>>).content)
    ELSE Strip(v)

RECURSIVE DedupeFrom(_, _)
DedupeFrom(items, keys) ==
    IF items = <<>> THEN <<>>
    ELSE IF Lower(Head(items)) \in keys
    THEN DedupeFrom(Tail(items), keys)
    ELSE <<Head(items)>> \o DedupeFrom(Tail(items), keys \cup {Lower(Head(items))})

dedupe_case_insensitive(items) == DedupeFrom(items, {})

\* [x.strip() for x in v if isinstance(x, str) and x.strip()]
StrippedTexts(v) == SelectSeq([i \in 1..Len(v) |-> Strip(v[i])], LAMBDA x : x # "")
TextOrNone(v) == IF IsText(v) THEN <<Strip(v)>> ELSE <<>>

\* (variant: the id is not appended)
build_aliases_NoId(data, char_id) ==
    dedupe_case_insensitive(
        TextOrNone(Get(data, "name")) \o TextOrNone(Get(data, "nickname"))
        \o StrippedTexts(GetList(data, "nicknames")) \o StrippedTexts(GetList(data, "aliases"))
        \o (IF HasMatrix(data) THEN StrippedTexts(GetList(data["matrix"], "aliases")) ELSE <<>>))

build_aliases(data, char_id) ==
    dedupe_case_insensitive(
        TextOrNone(Get(data, "name")) \o TextOrNone(Get(data, "nickname"))
        \o StrippedTexts(GetList(data, "nicknames")) \o StrippedTexts(GetList(data, "aliases"))
        \o (IF HasMatrix(data) THEN StrippedTexts(GetList(data["matrix"], "aliases")) ELSE <<>>)
        \o <<char_id>>)

HOST_URL == ""
\* the avatar_url value: the URL, or <<>> for null
AvatarUrl(data) ==
    IF IsText(Get(data, "avatar"))
    THEN <<HOST_URL, "/avatars/", Strip(Get(data, "avatar"))>>
    ELSE <<>>

\* The prompts bundle of resolve_character
PromptsOf(fs, data) ==
    LET base == [system |-> maybe_resolve_file(fs, Get(data, "system_prompt"), PROMPT_DIR),
                 background |-> maybe_resolve_file(fs, Get(data, "character_background"), INFO_DIR)]
    IN IF HasMatrix(data) /\ IsText(Get(data["matrix"], "append_rules"))
       THEN [matrix_append_rules |->
                 maybe_resolve_file(fs, Get(data["matrix"], "append_rules"), PROMPT_DIR)] @@ base
       ELSE base

\* (variant: the raw record's secrets field stays in the resolved record)
resolve_character_KeepSecrets(fs, data, char_id) ==
    LET prompts == PromptsOf(fs, data)
        matrix == IF HasMatrix(data)
                  THEN [matrix |->
                          IF "matrix_append_rules" \in DOMAIN prompts
                          THEN [append_rules_text |-> prompts.matrix_append_rules] @@ data["matrix"]
                          ELSE data["matrix"]]
                  ELSE <<>>
    IN [system_prompt |-> prompts.system,
        character_background |-> prompts.background,
        prompts |-> prompts,
        aliases |-> build_aliases(data, char_id),
        avatar_url |-> AvatarUrl(data)] @@ matrix @@ data

resolve_character(fs, data, char_id) ==
    LET prompts == PromptsOf(fs, data)
        kept == [k \in (DOMAIN data) \ {"secrets"} |-> data[k]]
        matrix == IF HasMatrix(data)
                  THEN [matrix |->
                          IF "matrix_append_rules" \in DOMAIN prompts
                          THEN [append_rules_text |-> prompts.matrix_append_rules] @@ data["matrix"]
                          ELSE data["matrix"]]
                  ELSE <<>>
    IN [system_prompt |-> prompts.system,
        character_background |-> prompts.background,
        prompts |-> prompts,
        aliases |-> build_aliases(data, char_id),
        avatar_url |-> AvatarUrl(data)] @@ matrix @@ kept

\* data.get("name") or char_id
NameOr(data, char_id) ==
    IF Get(data, "name") \in {Null, ""} THEN char_id ELSE Get(data, "name")

\* (variant: the public record carries the raw system_prompt field)
PublicItem_WithPrompt(data, char_id) ==
    [id |-> char_id,
     name |-> NameOr(data, char_id),
     nickname |-> Get(data, "nickname"),
     model |-> Get(data, "model"),
     greeting |-> Get(data, "greeting"),
     avatar |-> Get(data, "avatar"),
     aliases |-> build_aliases(data, char_id),
     avatar_url |-> AvatarUrl(data),
     system_prompt |-> Get(data, "system_prompt")]

\* The lightweight record of the list and of the public view
PublicItem(data, char_id) ==
    [id |-> char_id,
     name |-> NameOr(data, char_id),
     nickname |-> Get(data, "nickname"),
     model |-> Get(data, "model"),
     greeting |-> Get(data, "greeting"),
     avatar |-> Get(data, "avatar"),
     aliases |-> build_aliases(data, char_id),
     avatar_url |-> AvatarUrl(data)]

\* ------------------------------------------------------- endpoint layer
\* A request: the endpoint, the path parameter, the view query parameter
\* ("" when omitted), the If-None-Match header (<<>> absent, <<v>> value v;
\* the HTTP layer delivers field values without surrounding whitespace, so
\* inm.strip() is inm) and the x-api-key header.
\* The values of CHAR_API_KEY: unset (the default "") or a key.
ApiKeys == {"", "k1"}
\* The x-api-key values a request may carry ("" when the header is absent).
RequestKeys == {"", "k0", "k1"}
NoBody == [empty |-> TRUE]
NoReq == [ep |-> "none", id |-> "", view |-> "", inm |-> <<>>, key |-> ""]
NoResp == [status |-> 0, etag |-> <<>>, body |-> NoBody]

ErrorResp(status, detail) == [status |-> status, etag |-> <<>>, body |-> [detail |-> detail]]
NotModified(etag) == [status |-> 304, etag |-> <<etag>>, body |-> NoBody]
Ok(etag, body) == [status |-> 200, etag |-> <<etag>>, body |-> body]

\* (variant: no request is refused)
require_auth_Open(r) == TRUE

\* `if not API_KEY: return`, then the comparison of the header with API_KEY
require_auth(r) == API_KEY = "" \/ r.key = API_KEY

\* `inm and inm.strip() == etag`
IfNoneMatch(inm, etag) == inm # <<>> /\ inm[1] = etag

\* Query("private")
ViewOf(r) == IF r.view = "" THEN "private" ELSE r.view

ConfigText(fs, id) == Stat(fs, ConfigPath(id)).content

list_characters(fs, r) ==
    IF ~require_auth(r) THEN ErrorResp(401, "Unauthorized")
    ELSE IF IfNoneMatch(r.inm, compute_char_list_etag(fs))
    THEN NotModified(compute_char_list_etag(fs))
    ELSE IF \E i \in 1..Len(SortedIds(fs)) : ~Parses(ConfigText(fs, SortedIds(fs)[i]))
    THEN ErrorResp(500, "Failed to parse")
    ELSE Ok(compute_char_list_etag(fs),
            [characters |-> [i \in 1..Len(SortedIds(fs)) |->
                PublicItem(ConfigOf(ConfigText(fs, SortedIds(fs)[i])), SortedIds(fs)[i])]])

\* (variant: the config file is read without the check that it exists)
get_character_NoExistsCheck(fs, r) ==
    IF ~require_auth(r) THEN ErrorResp(401, "Unauthorized")
    ELSE IF ~Parses(ConfigText(fs, r.id)) THEN ErrorResp(500, "Failed to parse")
    ELSE LET data == ConfigOf(ConfigText(fs, r.id))
             etag == compute_character_etag(fs, ConfigPath(r.id), data)
         IN IF IfNoneMatch(r.inm, etag) THEN NotModified(etag)
            ELSE IF ViewOf(r) = "public" THEN Ok(etag, PublicItem(data, r.id))
            ELSE Ok(etag, [id |-> r.id] @@ resolve_character(fs, data, r.id))

\* (variant: the view is part of what the ETag is taken of)
get_character_ViewInETag(fs, r) ==
    IF ~require_auth(r) THEN ErrorResp(401, "Unauthorized")
    ELSE IF ~IsFile(fs, ConfigPath(r.id)) THEN ErrorResp(404, "Character not found")
    ELSE IF ~Parses(ConfigText(fs, r.id)) THEN ErrorResp(500, "Failed to parse")
    ELSE LET data == ConfigOf(ConfigText(fs, r.id))
             etag == [view |-> ViewOf(r),
                      of |-> compute_character_etag(fs, ConfigPath(r.id), data)]
         IN IF IfNoneMatch(r.inm, etag) THEN NotModified(etag)
            ELSE IF ViewOf(r) = "public" THEN Ok(etag, PublicItem(data, r.id))
            ELSE Ok(etag, [id |-> r.id] @@ resolve_character(fs, data, r.id))

get_character(fs, r) ==
    IF ~require_auth(r) THEN ErrorResp(401, "Unauthorized")
    ELSE IF ~IsFile(fs, ConfigPath(r.id)) THEN ErrorResp(404, "Character not found")
    ELSE IF ~Parses(ConfigText(fs, r.id)) THEN ErrorResp(500, "Failed to parse")
    ELSE LET data == ConfigOf(ConfigText(fs, r.id))
             etag == compute_character_etag(fs, ConfigPath(r.id), data)
         IN IF IfNoneMatch(r.inm, etag) THEN NotModified(etag)
            ELSE IF ViewOf(r) = "public" THEN Ok(etag, PublicItem(data, r.id))
            ELSE Ok(etag, [id |-> r.id] @@ resolve_character(fs, data, r.id))

\* The file names a request may carry, as their characters.
NameChars(name) ==
    CASE name = "" -> <<>>
      [] name = "v.png" -> <<"v", ".", "p", "n", "g">>
      [] name = "w.png" -> <<"w", ".", "p", "n", "g">>
      [] name = ".." -> <<".", ".">>
      [] name = "a\\v.png" -> <<"a", "\\", "v", ".", "p", "n", "g">>
      [] name = "../../characters/cat.json" ->
           <<".", ".", "/", ".", ".", "/", "characters", "/", "cat", ".", "json">>
      [] OTHER -> <<name>>

\* `sub in name`
Contains(chars, sub) ==
    \E i \in 1..(Len(chars) - Len(sub) + 1) : SubSeq(chars, i, i + Len(sub) - 1) = sub

\* (variant: only the empty name is refused)
safe_filename_NonEmpty(name) == name # ""

safe_filename(name) ==
    /\ name # ""
    /\ ~Contains(NameChars(name), <<"/">>)
    /\ ~Contains(NameChars(name), <<"\\">>)
    /\ ~Contains(NameChars(name), <<".", ".">>)

\* AVATAR_DIR / filename: the file the path leads to.  AVATAR_DIR is
\* /app/public/avatars and CHAR_DIR /app/characters, so ../../characters/x
\* is the file x of CHAR_DIR.
AvatarFile(name) ==
    IF name = "../../characters/cat.json" THEN ConfigPath("cat") ELSE <<AVATAR_DIR, name>>

\* the ETag of get_avatar: the quoted fingerprint itself
AvatarEtag(fs, path) == [quoted |-> file_fingerprint(fs, path)]
\* the ETag header FileResponse gives its own response (from mtime and size);
\* headers set on the injected Response are not copied to a Response the
\* endpoint returns itself
FileResponseEtag(fs, path) ==
    [md5 |-> <<Stat(fs, path).mtime, SizeOf(Stat(fs, path).content)>>]

get_avatar(fs, r) ==
    IF ~require_auth(r) THEN ErrorResp(401, "Unauthorized")
    ELSE IF ~safe_filename(r.id) THEN ErrorResp(400, "Invalid filename")
    ELSE IF ~IsFile(fs, AvatarFile(r.id)) THEN ErrorResp(404, "Avatar not found")
    ELSE IF IfNoneMatch(r.inm, AvatarEtag(fs, AvatarFile(r.id)))
    THEN NotModified(AvatarEtag(fs, AvatarFile(r.id)))
    ELSE Ok(FileResponseEtag(fs, AvatarFile(r.id)),
            [file |-> Stat(fs, AvatarFile(r.id)).content])

Handle(fs, r) ==
    CASE r.ep = "list" -> list_characters(fs, r)
      [] r.ep = "detail" -> get_character(fs, r)
      [] r.ep = "avatar" -> get_avatar(fs, r)

NoResult == [kind |-> "none", value |-> <<>>]

\* ------------------------------------------------------------ the files
\* A deployment: both characters configured, every referenced file present.
InitFiles ==
    [p \in Paths |->
        [exists |-> TRUE, mtime |-> 0,
         content |-> CASE p = ConfigPath("cat") -> "full"
                       [] p = ConfigPath("bo") -> "inline"
                       [] p = PromptPath -> "P1"
                       [] p = RulesPath -> "R1"
                       [] p = InfoPath -> "I1"
                       [] p = AvatarPath -> "img1"]]

FilesInit ==
    /\ clock = 0
    /\ edits = 0
    /\ files = InitFiles

\* A change of the files ends the exchange in progress: the response was
\* computed from the files as they were.
ExchangeOver ==
    /\ req' = NoReq
    /\ resp' = NoResp
    /\ UNCHANGED <<held, fetchVars, listVars, callVars, configVars, userVars, sessionVars, streamVars>>

\* Half a second passes.
Tick ==
    /\ clock < MaxClock
    /\ clock' = clock + 1
    /\ UNCHANGED <<files, edits>>
    /\ ExchangeOver

\* A file is written (created or overwritten): its mtime is the time of the write.
WriteFile(path, content) ==
    /\ edits < MaxEdits
    /\ edits' = edits + 1
    /\ files' = [files EXCEPT ![path] = [exists |-> TRUE, mtime |-> clock, content |-> content]]
    /\ UNCHANGED clock
    /\ ExchangeOver

DeleteFile(path) ==
    /\ edits < MaxEdits
    /\ files[path].exists
    /\ edits' = edits + 1
    /\ files' = [files EXCEPT ![path] = NoFile]
    /\ UNCHANGED clock
    /\ ExchangeOver

\* ------------------------------------------------- requests to the service
AvatarNames == {"v.png", "w.png", "", "..", "a\\v.png", "../../characters/cat.json"}

\* The requests a requester holding ETag h may send: unconditional or
\* conditional on h (or, for an avatar, on the validator derived from the
\* file's metadata), with the configured key; and a request without a key.
Requests(fs, h) ==
    LET inms == {<<>>, h}
    IN [ep : {"list"}, id : {""}, view : {""}, inm : inms, key : {API_KEY}]
       \cup [ep : {"detail"}, id : CharIds, view : {"", "public", "private"},
             inm : inms, key : {API_KEY}]
       \cup [ep : {"avatar"}, id : {AvatarPath[2]}, view : {""},
             inm : inms \cup {<<AvatarEtag(fs, AvatarPath)>>}, key : {API_KEY}]
       \cup [ep : {"avatar"}, id : AvatarNames \ {AvatarPath[2]}, view : {""},
             inm : {<<>>}, key : {API_KEY}]
       \cup [ep : {"list", "detail", "avatar"}, id : {"cat"}, view : {""},
             inm : {<<>>}, key : {""}]

\* The requests that come without the configured key: with no x-api-key
\* header or with another key, unconditional or conditional on h.
KeylessRequests(h) ==
    [ep : {"list"}, id : {""}, view : {""}, inm : {<<>>, h}, key : RequestKeys \ {API_KEY}]
    \cup [ep : {"detail"}, id : CharIds, view : {""}, inm : {<<>>, h},
          key : RequestKeys \ {API_KEY}]
    \cup [ep : {"avatar"}, id : {"v.png", "w.png"}, view : {""}, inm : {<<>>},
          key : RequestKeys \ {API_KEY}]

\* The requester sends r and the service answers it from the files as they are.
Serve(r) ==
    /\ req = NoReq
    /\ req' = r
    /\ resp' = Handle(files, r)
    /\ UNCHANGED <<held, fileVars, fetchVars, listVars, callVars, configVars, userVars, sessionVars, streamVars>>

\* The requester is done with the response; it may keep the ETag it got.
Done(keep) ==
    /\ req # NoReq
    /\ req' = NoReq
    /\ resp' = NoResp
    /\ held' = IF keep /\ resp.etag # <<>> THEN resp.etag ELSE held
    /\ UNCHANGED <<fileVars, fetchVars, listVars, callVars, configVars, userVars, sessionVars, streamVars>>

StreamIdle ==
    /\ chatUrlSet = TRUE
    /\ spc = "new"
    /\ last = <<>>
    /\ yields = <<>>
    /\ nlines = 0
    /\ line = NoLine
    /\ events = <<>>
    /\ posts = <<>>
    /\ streamErr = None
    /\ fb = NoFallback
    /\ raised = None

\* the chat sessions a process serves
Sessions == {"s1", "s2", "s3"}
NoSession == [state |-> "none", last |-> "none"]
\* the process as loaded: client = httpx.AsyncClient(), no session yet
SessionsIdle ==
    /\ client = "open"
    /\ sess = [s \in Sessions |-> NoSession]

FetchIdle ==
    /\ CHAR_PRIVATE_ETAGS = [i \in CharIds |-> <<>>]
    /\ CHAR_PRIVATE_CACHE = [i \in CharIds |-> <<>>]
    /\ fpc = "idle"
    /\ fid = "cat"
    /\ gets = <<>>
    /\ answers = <<>>
    /\ fres = NoResult
    /\ cachedAt = [i \in CharIds |-> <<>>]

CallIdle ==
    /\ pfn = "none"
    /\ pargs = <<>>
    /\ pout = <<>>

\* the processes of the chat UI that share the cache files
Procs == {"A", "B"}
NoListResp == [status |-> 0, etag |-> <<>>, body |-> [kind |-> "none", chars |-> <<>>]]
NoHandler == [handler |-> "none", fetch |-> "none", shown |-> "none", raised |-> None]

\* One idle process layout: nothing persisted, nothing fetched.
ListIdle ==
    /\ charUrlSet = TRUE
    /\ version = 1
    /\ etagFile = <<>>
    /\ payloadFile = <<>>
    /\ lpc = [p \in Procs |-> "idle"]
    /\ lreq = [p \in Procs |-> <<>>]
    /\ lresp = [p \in Procs |-> NoListResp]
    /\ CHAR_LIST = [p \in Procs |-> <<>>]
    /\ lres = [p \in Procs |-> NoHandler]

\* ===================================================== users.py
\* The users and invites tables of the SQLite database, and the calls of
\* users.py on them.  Every call opens its own connection, so calls of
\* different request threads interleave statement by statement; a SELECT runs
\* on its own, and the statements from the first UPDATE or INSERT to
\* conn.commit() are one transaction, which takes effect at once.
Usernames == {"ann", "bob"}
Passwords == {"pw1", "pw2"}
\* the (password, role) pairs create_user is called with
Profiles == {<<"pw1", "user">>, <<"pw2", "admin">>}
\* invite codes: <<>> is None; inv1 is a fresh invite, exp1 an invite past
\* its expires_at, nope a code with no row
InviteCodes == {"inv1", "exp1"}
CodeArgs == {<<>>, <<"inv1">>, <<"exp1">>, <<"nope">>}

\* bcrypt.hash and bcrypt.verify (the salt is left out)
BcryptHash(password) == <<"bcrypt", password>>
BcryptVerify(password, pw_hash) == pw_hash = BcryptHash(password)

NoUser == [exists |-> FALSE, pw_hash |-> <<>>, role |-> "", is_active |-> FALSE, logins |-> 0]
NoInvite == [exists |-> FALSE, is_active |-> FALSE, expired |-> FALSE, used_by |-> <<>>]
InviteRow(db, code) == IF code \in DOMAIN db THEN db[code] ELSE NoInvite

NoCall == [fn |-> "none", username |-> "", password |-> "", role |-> "", code |-> <<>>]
CreateCalls ==
    {[fn |-> "create_user", username |-> u, password |-> pr[1], role |-> pr[2], code |-> c] :
        u \in Usernames, pr \in Profiles, c \in CodeArgs}
VerifyCalls ==
    {[fn |-> "verify_user", username |-> u, password |-> pw, role |-> "", code |-> <<>>] :
        u \in Usernames, pw \in Passwords}
ToggleCall(fn, u) == [fn |-> fn, username |-> u, password |-> "", role |-> "", code |-> <<>>]

Returns(ok, msg) == [kind |-> "return", value |-> <<ok, msg>>]
Raises(exc) == [kind |-> "raise", value |-> <<exc>>]

UsersIdle ==
    /\ users = [u \in Usernames |-> NoUser]
    /\ invites = [c \in InviteCodes |->
                    [exists |-> TRUE, is_active |-> TRUE, expired |-> (c = "exp1"),
                     used_by |-> <<>>]]
    /\ upc = [p \in Procs |-> "idle"]
    /\ ucall = [p \in Procs |-> NoCall]
    /\ ures = [p \in Procs |-> NoResult]
    /\ ncalls = 0
    /\ createdBy = [u \in Usernames |-> <<>>]
    /\ toggled = [u \in Usernames |-> <<>>]

UserFrame ==
    UNCHANGED <<fileVars, serverVars, fetchVars, listVars, callVars, configVars, sessionVars,
                streamVars>>

\* (variant: the SELECT for the username finds nothing)
UserExists_Never(db, username) == FALSE

\* `existing = conn.execute("SELECT username FROM users WHERE username = ?")`
UserExists(db, username) == db[username].exists

\* The checks of the invite row, in the order of the code: the message of
\* the refusal, or "ok".
InviteCheck(row) ==
    IF ~row.exists THEN "Invalid invite code"
    ELSE IF ~row.is_active THEN "Invite code already used"
    ELSE IF row.expired THEN "Invite code expired"
    ELSE "ok"

\* (variant: a disabled account passes)
VerifyRow_IgnoresActive(row, password) == row.exists /\ BcryptVerify(password, row.pw_hash)

\* verify_user's checks of the selected row
VerifyRow(row, password) ==
    row.exists /\ row.is_active /\ BcryptVerify(password, row.pw_hash)

\* A request thread of process p enters create_user or verify_user.
UserCall(p, call) ==
    /\ upc[p] = "idle"
    /\ ncalls < MaxCalls
    /\ ncalls' = ncalls + 1
    /\ ucall' = [ucall EXCEPT ![p] = call]
    /\ ures' = [ures EXCEPT ![p] = NoResult]
    /\ upc' = [upc EXCEPT ![p] = IF call.fn = "create_user" THEN "cu_user" ELSE "vu_select"]
    /\ UNCHANGED <<users, invites, createdBy, toggled>>
    /\ UserFrame

\* create_user: the SELECT for the username
CreateCheckUser(p) ==
    /\ upc[p] = "cu_user"
    /\ IF UserExists(users, ucall[p].username)
       THEN /\ ures' = [ures EXCEPT ![p] = Returns(FALSE, "Username already exists")]
            /\ upc' = [upc EXCEPT ![p] = "idle"]
       ELSE /\ upc' = [upc EXCEPT ![p] = IF ucall[p].code # <<>> THEN "cu_invite" ELSE "cu_write"]
            /\ UNCHANGED ures
    /\ UNCHANGED <<users, invites, ucall, ncalls, createdBy, toggled>>
    /\ UserFrame

\* create_user: the SELECT for the invite and the checks of its row
CreateCheckInvite(p) ==
    /\ upc[p] = "cu_invite"
    /\ IF InviteCheck(InviteRow(invites, ucall[p].code[1])) # "ok"
       THEN /\ ures' = [ures EXCEPT
                          ![p] = Returns(FALSE, InviteCheck(InviteRow(invites, ucall[p].code[1])))]
            /\ upc' = [upc EXCEPT ![p] = "idle"]
       ELSE /\ upc' = [upc EXCEPT ![p] = "cu_write"]
            /\ UNCHANGED ures
    /\ UNCHANGED <<users, invites, ucall, ncalls, createdBy, toggled>>
    /\ UserFrame

\* create_user: the UPDATE of the invite (WHERE code = ?), the INSERT of the
\* user and the commit.  The INSERT of a username that has a row by now
\* raises IntegrityError and the transaction is not committed.
CreateWrite(p) ==
    /\ upc[p] = "cu_write"
    /\ upc' = [upc EXCEPT ![p] = "idle"]
    /\ IF users[ucall[p].username].exists
       THEN /\ ures' = [ures EXCEPT ![p] = Raises("IntegrityError")]
            /\ UNCHANGED <<users, invites, createdBy>>
       ELSE /\ users' = [users EXCEPT ![ucall[p].username] =
                           [exists |-> TRUE, pw_hash |-> BcryptHash(ucall[p].password),
                            role |-> ucall[p].role, is_active |-> TRUE, logins |-> 0]]
            /\ invites' = IF ucall[p].code # <<>>
                          THEN [invites EXCEPT ![ucall[p].code[1]].used_by = <<ucall[p].username>>,
                                               ![ucall[p].code[1]].is_active = FALSE]
                          ELSE invites
            /\ createdBy' = [createdBy EXCEPT ![ucall[p].username] = <<ucall[p]>>]
            /\ ures' = [ures EXCEPT ![p] = Returns(TRUE, "User created")]
    /\ UNCHANGED <<ucall, ncalls, toggled>>
    /\ UserFrame

\* verify_user: the SELECT of the row and the checks
VerifySelect(p) ==
    /\ upc[p] = "vu_select"
    /\ IF VerifyRow(users[ucall[p].username], ucall[p].password)
       THEN /\ upc' = [upc EXCEPT ![p] = "vu_stamp"]
            /\ ucall' = [ucall EXCEPT ![p].role = users[ucall[p].username].role]
            /\ UNCHANGED ures
       ELSE /\ upc' = [upc EXCEPT ![p] = "idle"]
            /\ ures' = [ures EXCEPT ![p] = Returns(FALSE, "")]
            /\ UNCHANGED ucall
    /\ UNCHANGED <<users, invites, ncalls, createdBy, toggled>>
    /\ UserFrame

\* verify_user: the UPDATE of last_login_at, the commit and the return
VerifyStamp(p) ==
    /\ upc[p] = "vu_stamp"
    /\ upc' = [upc EXCEPT ![p] = "idle"]
    /\ users' = [users EXCEPT ![ucall[p].username].logins = @ + 1]
    /\ ures' = [ures EXCEPT ![p] = Returns(TRUE, ucall[p].role)]
    /\ UNCHANGED <<invites, ucall, ncalls, createdBy, toggled>>
    /\ UserFrame

\* disable_user (active = FALSE) and enable_user (active = TRUE): one UPDATE
\* and its commit
SetActive(p, u, active) ==
    /\ upc[p] = "idle"
    /\ ncalls < MaxCalls
    /\ ncalls' = ncalls + 1
    /\ ucall' = [ucall EXCEPT ![p] = ToggleCall(IF active THEN "enable_user" ELSE "disable_user", u)]
    /\ IF users[u].exists
       THEN /\ users' = [users EXCEPT ![u].is_active = active]
            /\ toggled' = [toggled EXCEPT ![u] = Append(@, IF active THEN "enable" ELSE "disable")]
            /\ ures' = [ures EXCEPT
                          ![p] = Returns(TRUE, IF active THEN "User enabled" ELSE "User disabled")]
       ELSE /\ ures' = [ures EXCEPT ![p] = Returns(FALSE, "User not found")]
            /\ UNCHANGED <<users, toggled>>
    /\ UNCHANGED <<invites, upc, createdBy>>
    /\ UserFrame

NoExchange ==
    /\ req = NoReq
    /\ resp = NoResp
    /\ held = <<>>

\* The service at rest, deployed with a key.
ServerIdle ==
    /\ API_KEY = "k1"
    /\ NoExchange

ServerInit == FilesInit /\ SessionsIdle /\ UsersIdle /\ ServerIdle /\ FetchIdle /\ ListIdle /\ CallIdle /\ StreamIdle

ServerNext ==
    \/ Tick
    \/ \E p \in Paths : \E c \in ContentsOf(p) : WriteFile(p, c)
    \/ \E p \in Paths : DeleteFile(p)
    \/ \E r \in Requests(files, held) : Serve(r)
    \/ \E keep \in BOOLEAN : Done(keep)

SpecServer == ServerInit /\ [][ServerNext]_vars

StreamSpecInit == StreamInit /\ FilesInit /\ SessionsIdle /\ UsersIdle /\ ServerIdle /\ FetchIdle /\ ListIdle /\ CallIdle

SpecStream == StreamSpecInit /\ [][StreamNext]_vars

\* ===================================== the chat UI's private-view fetch
\* fetch_character_private(char_id) of the chat UI.  The directory service is
\* reached over HTTP, so what comes back is whatever the peer (the service, a
\* proxy in front of it) sends, or no response at all.
BodyTexts == {"{\"name\": \"Cat\"}", "{\"name\": \"Bo\"}", "{}", "<html>"}

\* resp.json(): a dict as its set of <<key, value>> pairs
JsonParses(text) == text \in {"{\"name\": \"Cat\"}", "{\"name\": \"Bo\"}", "{}"}
Json(text) ==
    CASE text = "{\"name\": \"Cat\"}" -> {<<"name", "Cat">>}
      [] text = "{\"name\": \"Bo\"}" -> {<<"name", "Bo">>}
      [] OTHER -> {}

ETagValues == {"e1", "e2"}

HttpResponses ==
    [status : {200}, etag : {<<>>} \cup {<<e>> : e \in ETagValues}, text : BodyTexts]
    \cup [status : {304}, etag : {<<>>, <<"e1">>}, text : {""}]
    \cup [status : {404, 500}, etag : {<<>>}, text : {"{\"detail\": \"x\"}"}]

\* the request got no response (connection refused, timeout)
ConnectError == [status |-> 0, etag |-> <<>>, text |-> ""]

\* `if etag:` : an entry that is a non-empty string
EtagTruthy(e) == e # <<>> /\ e[1] # ""
\* `if cached:` : an entry that is a non-empty dict
CachedTruthy(c) == c # <<>> /\ c[1] # {}

\* the GET of /characters/{id}?view=private with its If-None-Match (<<>>: none)
PrivateGet(id, inm) == [ep |-> "detail", id |-> id, view |-> "private", inm |-> inm]

FirstGet(id, etags) == PrivateGet(id, IF EtagTruthy(etags[id]) THEN etags[id] ELSE <<>>)

\* (variant: an empty cache is trusted on a 304)
OnNotModified_TrustCache(cached) == "return"

\* what a 304 leads to
OnNotModified(cached) == IF CachedTruthy(cached) THEN "return" ELSE "retry"

\* the value returned: <<>> for None, <<d>> for the dict d
Returned(v) == [kind |-> "return", value |-> v]
Raised(e) == [kind |-> "raise", value |-> <<e>>]

\* (variant: a record already cached is kept, only the first one is stored)
AfterResponse_KeepFirst(id, r, etags, cache, redirectRaises) ==
    IF r.status >= 400 \/ (r.status >= 300 /\ redirectRaises)
    THEN [etags |-> etags, cache |-> cache, res |-> Raised("HTTPStatusError")]
    ELSE LET stored == [etags EXCEPT ![id] = <<IF r.etag = <<>> THEN "" ELSE r.etag[1]>>]
         IN IF ~JsonParses(r.text)
            THEN [etags |-> stored, cache |-> cache, res |-> Raised("JSONDecodeError")]
            ELSE [etags |-> stored,
                  cache |-> IF cache[id] = <<>>
                            THEN [cache EXCEPT ![id] = <<Json(r.text)>>] ELSE cache,
                  res |-> Returned(<<Json(r.text)>>)]

\* raise_for_status() and what follows it.  httpx raises for 4xx and 5xx; for
\* a 3xx it raises or not depending on its version (redirectRaises).
AfterResponse(id, r, etags, cache, redirectRaises) ==
    IF r.status >= 400 \/ (r.status >= 300 /\ redirectRaises)
    THEN [etags |-> etags, cache |-> cache, res |-> Raised("HTTPStatusError")]
    ELSE LET stored == [etags EXCEPT ![id] = <<IF r.etag = <<>> THEN "" ELSE r.etag[1]>>]
         IN IF ~JsonParses(r.text)
            THEN [etags |-> stored, cache |-> cache, res |-> Raised("JSONDecodeError")]
            ELSE [etags |-> stored,
                  cache |-> [cache EXCEPT ![id] = <<Json(r.text)>>],
                  res |-> Returned(<<Json(r.text)>>)]

\* The call starts and sends its first GET.
FetchCall(id) ==
    /\ fpc \in {"idle", "done"}
    /\ fpc' = "await1"
    /\ fid' = id
    /\ gets' = <<FirstGet(id, CHAR_PRIVATE_ETAGS)>>
    /\ answers' = <<>>
    /\ fres' = NoResult
    /\ UNCHANGED <<CHAR_PRIVATE_ETAGS, CHAR_PRIVATE_CACHE, cachedAt>>
    /\ UNCHANGED <<fileVars, serverVars, listVars, callVars, configVars, userVars, sessionVars, streamVars>>

FetchEnd(after) ==
    /\ CHAR_PRIVATE_ETAGS' = after.etags
    /\ CHAR_PRIVATE_CACHE' = after.cache
    /\ fres' = after.res
    /\ fpc' = "done"
    /\ UNCHANGED <<fid, gets, cachedAt>>

FetchFails ==
    FetchEnd([etags |-> CHAR_PRIVATE_ETAGS, cache |-> CHAR_PRIVATE_CACHE,
              res |-> Raised("ConnectError")])

\* The first GET is answered.
FetchFirst(o, redirectRaises) ==
    /\ fpc = "await1"
    /\ answers' = <<o>>
    /\ UNCHANGED <<fileVars, serverVars, listVars, callVars, configVars, userVars, sessionVars, streamVars>>
    /\ IF o = ConnectError THEN FetchFails
       ELSE IF o.status = 304
       THEN IF OnNotModified(CHAR_PRIVATE_CACHE[fid]) = "return"
            THEN FetchEnd([etags |-> CHAR_PRIVATE_ETAGS, cache |-> CHAR_PRIVATE_CACHE,
                           res |-> Returned(CHAR_PRIVATE_CACHE[fid])])
            ELSE /\ gets' = Append(gets, PrivateGet(fid, <<>>))
                 /\ fpc' = "await2"
                 /\ UNCHANGED <<CHAR_PRIVATE_ETAGS, CHAR_PRIVATE_CACHE, fid, fres, cachedAt>>
       ELSE FetchEnd(AfterResponse(fid, o, CHAR_PRIVATE_ETAGS, CHAR_PRIVATE_CACHE,
                                   redirectRaises))

\* The retry is answered.
FetchRetry(o, redirectRaises) ==
    /\ fpc = "await2"
    /\ answers' = Append(answers, o)
    /\ UNCHANGED <<fileVars, serverVars, listVars, callVars, configVars, userVars, sessionVars, streamVars>>
    /\ IF o = ConnectError THEN FetchFails
       ELSE FetchEnd(AfterResponse(fid, o, CHAR_PRIVATE_ETAGS, CHAR_PRIVATE_CACHE,
                                   redirectRaises))

FetchInit == FetchIdle /\ FilesInit /\ SessionsIdle /\ UsersIdle /\ ServerIdle /\ ListIdle /\ CallIdle /\ StreamIdle

FetchNext ==
    \/ \E id \in CharIds : FetchCall(id)
    \/ \E o \in HttpResponses \cup {ConnectError} : \E b \in BOOLEAN : FetchFirst(o, b)
    \/ \E o \in HttpResponses \cup {ConnectError} : \E b \in BOOLEAN : FetchRetry(o, b)

SpecFetch == FetchInit /\ [][FetchNext]_vars

\* ================================ the chat UI's character list and its cache
\* fetch_characters_list and its callers chat_profiles and start.  The etag
\* and the payload are persisted in two files under /tmp that every process
\* of the chat UI on the host shares; each write_text and read_text is one
\* step.  The directory is at some revision; the list ETag and the list
\* change with it.
ETagAt(v) == [list |-> v]
ListAt(v) == <<[id |-> "cat", name |-> "Cat", rev |-> v]>>

\* list_characters as the consumer sees it: 304 on a matching If-None-Match,
\* else 200 with the ETag and {"characters": [...]}
ServiceList(v, inm) ==
    IF inm # <<>> /\ inm[1] = ETagAt(v)
    THEN [status |-> 304, etag |-> <<ETagAt(v)>>, body |-> [kind |-> "none", chars |-> <<>>]]
    ELSE [status |-> 200, etag |-> <<ETagAt(v)>>, body |-> [kind |-> "json", chars |-> ListAt(v)]]

\* What can come back for a GET of /characters: the service's answer, no
\* answer, an error status, or a 200 of some other peer (no ETag header, a
\* body that is not JSON, a JSON object without "characters").
ListAnswers(v, inm) ==
    {ServiceList(v, inm),
     NoListResp,
     [status |-> 500, etag |-> <<>>, body |-> [kind |-> "json", chars |-> <<>>]],
     [status |-> 200, etag |-> <<>>, body |-> [kind |-> "json", chars |-> ListAt(v)]],
     [status |-> 200, etag |-> <<ETagAt(v)>>, body |-> [kind |-> "html", chars |-> <<>>]],
     [status |-> 200, etag |-> <<ETagAt(v)>>, body |-> [kind |-> "json_nokey", chars |-> <<>>]]}

\* json.dumps(chars) and json.loads of it
JsonDumps(chars) == [json |-> chars]
JsonLoads(text) == text.json

load_cached_characters(pf) == IF pf = <<>> THEN <<>> ELSE JsonLoads(pf[1])
\* the etag read from the file (<<>>: the empty string)
load_cached_etag(ef) == IF ef = <<>> THEN <<>> ELSE <<ef[1]>>
\* (variant: the etag file is never rewritten)
save_cached_etag_Keep(ef, etag) == ef

\* the etag file after save_cached_etag(etag): written only `if etag`
save_cached_etag(ef, etag) == IF etag # <<>> THEN <<etag[1]>> ELSE ef

\* resp.json() and data.get("characters", [])
ListBodyParses(body) == body.kind \in {"json", "json_nokey"}
CharsOf(body) == IF body.kind = "json" THEN body.chars ELSE <<>>

\* (variant: the handlers catch HTTP status errors only)
ListExcept_StatusOnly(err) == IF err = "status" THEN "use_cache" ELSE "propagate"

\* `except Exception` of chat_profiles and start around fetch_characters_list
ListExcept(err) == "use_cache"

\* How a handler ends with list in memory: the profiles, or the report that
\* no characters are available.
HandlerEnd(h, fetch, list) ==
    [handler |-> h, fetch |-> fetch,
     shown |-> IF list = <<>> THEN "no_characters" ELSE "profiles", raised |-> None]

\* fetch_characters_list raised err inside handler lres[p].handler
ListRaises(p, err) ==
    /\ lpc' = [lpc EXCEPT ![p] = "done"]
    /\ lreq' = [lreq EXCEPT ![p] = <<>>]
    /\ UNCHANGED lresp
    /\ IF ListExcept(err) = "use_cache"
       THEN /\ CHAR_LIST' = [CHAR_LIST EXCEPT ![p] = load_cached_characters(payloadFile)]
            /\ lres' = [lres EXCEPT ![p] =
                  HandlerEnd(lres[p].handler, "failed", load_cached_characters(payloadFile))]
       ELSE /\ lres' = [lres EXCEPT ![p] = [handler |-> lres[p].handler, fetch |-> "failed",
                                            shown |-> "none", raised |-> err]]
            /\ UNCHANGED CHAR_LIST

\* fetch_characters_list returned chars
ListReturns(p, chars) ==
    /\ lpc' = [lpc EXCEPT ![p] = "done"]
    /\ lreq' = [lreq EXCEPT ![p] = <<>>]
    /\ UNCHANGED lresp
    /\ CHAR_LIST' = [CHAR_LIST EXCEPT ![p] = chars]
    /\ lres' = [lres EXCEPT ![p] = HandlerEnd(lres[p].handler, "ok", chars)]

ListFrame == UNCHANGED <<fileVars, serverVars, fetchVars, callVars, configVars, userVars, sessionVars, streamVars>>

\* The directory changes: the service serves the next revision.
ServiceChanges ==
    /\ version < MaxVersion
    /\ version' = version + 1
    /\ UNCHANGED <<charUrlSet, etagFile, payloadFile, lpc, lreq, lresp, CHAR_LIST, lres>>
    /\ ListFrame

\* Handler h of process p runs up to the GET: the URL check, the etag read
\* from the file, the request sent.  start fetches only when the process
\* holds no list.
ListCall(p, h) ==
    /\ lpc[p] \in {"idle", "done"}
    /\ h = "start" => CHAR_LIST[p] = <<>>
    /\ IF ~charUrlSet
       THEN /\ lpc' = [lpc EXCEPT ![p] = "done"]
            /\ IF ListExcept("not_configured") = "use_cache"
               THEN /\ CHAR_LIST' = [CHAR_LIST EXCEPT ![p] = load_cached_characters(payloadFile)]
                    /\ lres' = [lres EXCEPT ![p] =
                          HandlerEnd(h, "failed", load_cached_characters(payloadFile))]
               ELSE /\ lres' = [lres EXCEPT ![p] = [handler |-> h, fetch |-> "failed",
                                   shown |-> "none", raised |-> "not_configured"]]
                    /\ UNCHANGED CHAR_LIST
            /\ UNCHANGED lreq
       ELSE /\ lpc' = [lpc EXCEPT ![p] = "await"]
            /\ lreq' = [lreq EXCEPT ![p] = load_cached_etag(etagFile)]
            /\ lres' = [lres EXCEPT ![p] = [handler |-> h, fetch |-> "running",
                                            shown |-> "none", raised |-> None]]
            /\ UNCHANGED CHAR_LIST
    /\ lresp' = [lresp EXCEPT ![p] = NoListResp]
    /\ UNCHANGED <<charUrlSet, version, etagFile, payloadFile>>
    /\ ListFrame

\* start of a process that already holds a list: no fetch
StartHolds(p) ==
    /\ lpc[p] \in {"idle", "done"}
    /\ CHAR_LIST[p] # <<>>
    /\ lpc' = [lpc EXCEPT ![p] = "done"]
    /\ lres' = [lres EXCEPT ![p] = [handler |-> "start", fetch |-> "none",
                                    shown |-> "profiles", raised |-> None]]
    /\ lresp' = [lresp EXCEPT ![p] = NoListResp]
    /\ UNCHANGED <<charUrlSet, version, etagFile, payloadFile, lreq, CHAR_LIST>>
    /\ ListFrame

\* The GET of process p is answered, from the directory as it is now.
ListAnswered(p, a) ==
    /\ lpc[p] = "await"
    /\ a \in ListAnswers(version, lreq[p])
    /\ lpc' = [lpc EXCEPT ![p] = "answered"]
    /\ lresp' = [lresp EXCEPT ![p] = a]
    /\ UNCHANGED <<charUrlSet, version, etagFile, payloadFile, lreq, CHAR_LIST, lres>>
    /\ ListFrame

\* Process p handles the response up to save_cached_etag: no response and an
\* error status raise, a 304 returns the persisted payload, a 200 has its
\* etag written.
ListHandle(p) ==
    /\ lpc[p] = "answered"
    /\ CASE lresp[p].status = 0 ->
              /\ ListRaises(p, "unreachable")
              /\ UNCHANGED <<etagFile, payloadFile>>
         [] lresp[p].status >= 400 ->
              /\ ListRaises(p, "status")
              /\ UNCHANGED <<etagFile, payloadFile>>
         [] lresp[p].status = 304 ->
              /\ ListReturns(p, load_cached_characters(payloadFile))
              /\ UNCHANGED <<etagFile, payloadFile>>
         [] lresp[p].status = 200 ->
              /\ etagFile' = save_cached_etag(etagFile, lresp[p].etag)
              /\ lpc' = [lpc EXCEPT ![p] = "etag_saved"]
              /\ UNCHANGED <<payloadFile, lreq, lresp, CHAR_LIST, lres>>
    /\ UNCHANGED <<charUrlSet, version>>
    /\ ListFrame

\* Process p parses the 200's body and writes the payload file.
ListPersist(p) ==
    /\ lpc[p] = "etag_saved"
    /\ IF ~ListBodyParses(lresp[p].body)
       THEN /\ ListRaises(p, "json")
            /\ UNCHANGED payloadFile
       ELSE /\ payloadFile' = <<JsonDumps(CharsOf(lresp[p].body))>>
            /\ ListReturns(p, CharsOf(lresp[p].body))
    /\ UNCHANGED <<charUrlSet, version, etagFile>>
    /\ ListFrame

\* The host as it is found: configured or not, with the cache files a
\* previous run left or none.
ListInit ==
    /\ charUrlSet \in BOOLEAN
    /\ version = 1
    /\ \/ etagFile = <<>> /\ payloadFile = <<>>
       \/ etagFile = <<ETagAt(1)>> /\ payloadFile = <<JsonDumps(ListAt(1))>>
    /\ lpc = [p \in Procs |-> "idle"]
    /\ lreq = [p \in Procs |-> <<>>]
    /\ lresp = [p \in Procs |-> NoListResp]
    /\ CHAR_LIST = [p \in Procs |-> <<>>]
    /\ lres = [p \in Procs |-> NoHandler]
    /\ FilesInit /\ SessionsIdle /\ UsersIdle /\ ServerIdle /\ FetchIdle /\ CallIdle /\ StreamIdle

ListNext ==
    \/ ServiceChanges
    \/ \E p \in Procs, h \in {"chat_profiles", "start"} : ListCall(p, h)
    \/ \E p \in Procs : StartHolds(p)
    \/ \E p \in Procs : \E a \in ListAnswers(version, lreq[p]) : ListAnswered(p, a)
    \/ \E p \in Procs : ListHandle(p)
    \/ \E p \in Procs : ListPersist(p)

SpecList == ListInit /\ [][ListNext]_vars

\* ============================================ build_aliases on its own
\* The records build_aliases is applied to: every field present or absent
\* (None), texts with different casing and surrounding blanks, alias lists
\* with repeats, with and without the matrix block.
AliasNames == {Null, "Cat", "cat", "CAT", " Cat ", " ", "Bo"}
AliasLists == {<<>>, <<"Kitty">>, <<"cat", "Kitty">>, <<" ", "CAT">>}
AliasRecords ==
    [name : AliasNames, nickname : AliasNames, nicknames : AliasLists, aliases : AliasLists]
    \cup [name : AliasNames, nickname : AliasNames, aliases : AliasLists,
          matrix : [aliases : {<<"Kitty", "kitty">>, <<"Bo", " Cat ">>}]]

AliasesInit ==
    /\ pfn = "build_aliases"
    /\ pargs \in [data : AliasRecords, id : CharIds]
    /\ pout = <<>>
    /\ FilesInit /\ SessionsIdle /\ UsersIdle /\ ServerIdle /\ FetchIdle /\ ListIdle /\ StreamIdle

\* build_aliases(data, char_id) returns
AliasesReturn ==
    /\ pfn = "build_aliases"
    /\ pout = <<>>
    /\ pout' = <<build_aliases(pargs.data, pargs.id)>>
    /\ UNCHANGED <<pfn, pargs, fileVars, serverVars, fetchVars, listVars, configVars, userVars, sessionVars, streamVars>>

SpecAliases == AliasesInit /\ [][AliasesReturn]_vars

\* ------------------------------------------- the user database in use
\* The database as a deployment finds it: empty, or with the account ann
\* that create_user("ann", "pw1", "user") made earlier.
AnnCall == [fn |-> "create_user", username |-> "ann", password |-> "pw1", role |-> "user",
            code |-> <<>>]
UsersInit ==
    /\ \/ users = [u \in Usernames |-> NoUser] /\ createdBy = [u \in Usernames |-> <<>>]
       \/ /\ users = [u \in Usernames |->
                        IF u = "ann"
                        THEN [exists |-> TRUE, pw_hash |-> BcryptHash("pw1"), role |-> "user",
                              is_active |-> TRUE, logins |-> 0]
                        ELSE NoUser]
          /\ createdBy = [u \in Usernames |-> IF u = "ann" THEN <<AnnCall>> ELSE <<>>]
    /\ invites = [c \in InviteCodes |->
                    [exists |-> TRUE, is_active |-> TRUE, expired |-> (c = "exp1"),
                     used_by |-> <<>>]]
    /\ upc = [p \in Procs |-> "idle"]
    /\ ucall = [p \in Procs |-> NoCall]
    /\ ures = [p \in Procs |-> NoResult]
    /\ ncalls = 0
    /\ toggled = [u \in Usernames |-> <<>>]
    /\ FilesInit /\ SessionsIdle /\ ServerIdle /\ FetchIdle /\ ListIdle /\ CallIdle /\ StreamIdle

UsersNext ==
    \/ \E p \in Procs, call \in CreateCalls \cup VerifyCalls : UserCall(p, call)
    \/ \E p \in Procs : CreateCheckUser(p)
    \/ \E p \in Procs : CreateCheckInvite(p)
    \/ \E p \in Procs : CreateWrite(p)
    \/ \E p \in Procs : VerifySelect(p)
    \/ \E p \in Procs : VerifyStamp(p)
    \/ \E p \in Procs, u \in Usernames, active \in BOOLEAN : SetActive(p, u, active)

SpecUsers == UsersInit /\ [][UsersNext]_vars

\* ================== fetch_character_private in front of the directory service
\* The chat UI's private-view fetch answered by get_character from the files
\* as they are when the request arrives.  char_headers() carries the key the
\* service is deployed with.  An ETag of the service is never the empty
\* string and its private record never an empty dict, so `if etag:` and
\* `if cached:` test for presence.
KeyedGet(id, inm) ==
    [ep |-> "detail", id |-> id, view |-> "private", inm |-> inm, key |-> API_KEY]

\* the responses the call receives: the answer to its GET and, for a 304 with
\* nothing cached, the answer to the unconditional GET that follows
ServiceAnswers(fs, id, etags, cache) ==
    LET first == get_character(fs, KeyedGet(id, etags[id]))
    IN IF first.status = 304 /\ cache[id] = <<>>
       THEN <<first, get_character(fs, KeyedGet(id, <<>>))>>
       ELSE <<first>>

\* (variant: a record already cached is kept when a 200 arrives)
CachedFetch_KeepFirst(id) ==
    LET got == ServiceAnswers(files, id, CHAR_PRIVATE_ETAGS, CHAR_PRIVATE_CACHE)
        r == got[Len(got)]
    IN /\ fid' = id
       /\ fpc' = "done"
       /\ gets' = IF Len(got) = 2
                  THEN <<KeyedGet(id, CHAR_PRIVATE_ETAGS[id]), KeyedGet(id, <<>>)>>
                  ELSE <<KeyedGet(id, CHAR_PRIVATE_ETAGS[id])>>
       /\ answers' = got
       /\ IF r.status = 304
          THEN /\ fres' = Returned(CHAR_PRIVATE_CACHE[id])
               /\ UNCHANGED <<CHAR_PRIVATE_ETAGS, CHAR_PRIVATE_CACHE, cachedAt>>
          ELSE IF r.status >= 400
          THEN /\ fres' = Raised("HTTPStatusError")
               /\ UNCHANGED <<CHAR_PRIVATE_ETAGS, CHAR_PRIVATE_CACHE, cachedAt>>
          ELSE /\ CHAR_PRIVATE_ETAGS' = [CHAR_PRIVATE_ETAGS EXCEPT ![id] = r.etag]
               /\ CHAR_PRIVATE_CACHE' = IF CHAR_PRIVATE_CACHE[id] = <<>>
                                        THEN [CHAR_PRIVATE_CACHE EXCEPT ![id] = <<r.body>>]
                                        ELSE CHAR_PRIVATE_CACHE
               /\ cachedAt' = [cachedAt EXCEPT ![id] = <<files>>]
               /\ fres' = Returned(<<r.body>>)
       /\ UNCHANGED <<fileVars, serverVars, listVars, callVars, configVars, userVars, sessionVars,
                      streamVars>>

\* One call of fetch_character_private(id), from its GET to its return.
CachedFetch(id) ==
    LET got == ServiceAnswers(files, id, CHAR_PRIVATE_ETAGS, CHAR_PRIVATE_CACHE)
        r == got[Len(got)]
    IN /\ fid' = id
       /\ fpc' = "done"
       /\ gets' = IF Len(got) = 2
                  THEN <<KeyedGet(id, CHAR_PRIVATE_ETAGS[id]), KeyedGet(id, <<>>)>>
                  ELSE <<KeyedGet(id, CHAR_PRIVATE_ETAGS[id])>>
       /\ answers' = got
       /\ IF r.status = 304
          THEN /\ fres' = Returned(CHAR_PRIVATE_CACHE[id])
               /\ UNCHANGED <<CHAR_PRIVATE_ETAGS, CHAR_PRIVATE_CACHE, cachedAt>>
          ELSE IF r.status >= 400
          THEN /\ fres' = Raised("HTTPStatusError")
               /\ UNCHANGED <<CHAR_PRIVATE_ETAGS, CHAR_PRIVATE_CACHE, cachedAt>>
          ELSE /\ CHAR_PRIVATE_ETAGS' = [CHAR_PRIVATE_ETAGS EXCEPT ![id] = r.etag]
               /\ CHAR_PRIVATE_CACHE' = [CHAR_PRIVATE_CACHE EXCEPT ![id] = <<r.body>>]
               /\ cachedAt' = [cachedAt EXCEPT ![id] = <<files>>]
               /\ fres' = Returned(<<r.body>>)
       /\ UNCHANGED <<fileVars, serverVars, listVars, callVars, configVars, userVars, sessionVars,
                      streamVars>>

CachedInit == FilesInit /\ SessionsIdle /\ UsersIdle /\ ServerIdle /\ FetchIdle /\ ListIdle /\ CallIdle /\ StreamIdle

CachedNext ==
    \/ Tick
    \/ \E p \in Paths : \E c \in ContentsOf(p) : WriteFile(p, c)
    \/ \E p \in Paths : DeleteFile(p)
    \/ \E id \in CharIds : CachedFetch(id)

SpecCached == CachedInit /\ [][CachedNext]_vars

\* ================================ the legacy loader of webbui_chat/app.py
\* The module-level loop that fills CHARACTERS from ../characters/*.json.
\* What a character file holds:
\*   by_file     every required field, system_prompt "p.txt"
\*   inline      every required field, system_prompt "You are Bo"
\*   other_text  every required field, system_prompt "Act as Bo"
\*   you_file    every required field, system_prompt "You.txt"
\*   no_greeting an object without "greeting"
\*   null_prompt every required field, system_prompt null
\*   a_list      valid JSON that is a list
\*   bad_json    not valid JSON
LegacyKinds == {"by_file", "inline", "other_text", "you_file", "no_greeting",
                "null_prompt", "a_list", "bad_json"}
LegacyStems == <<"a", "b", "c">>
NoEntry == "absent"
required_fields == {"name", "avatar", "model", "system_prompt", "greeting"}
\* the files a prompt directory may hold, and prompt_path.read_text()
LegacyPromptFiles == {"p.txt", "You.txt"}
PromptFileText(name) == IF name = "p.txt" THEN " You are a cat " ELSE " You are you "

\* json.load of a character file that parses to an object
LegacyData(kind) ==
    LET base == [name |-> "N", avatar |-> "v.png", model |-> "m1", greeting |-> "Hi"]
    IN CASE kind = "by_file" -> [system_prompt |-> "p.txt"] @@ base
         [] kind = "inline" -> [system_prompt |-> "You are Bo"] @@ base
         [] kind = "other_text" -> [system_prompt |-> "Act as Bo"] @@ base
         [] kind = "you_file" -> [system_prompt |-> "You.txt"] @@ base
         [] kind = "null_prompt" -> [system_prompt |-> Null] @@ base
         [] kind = "no_greeting" ->
              [name |-> "N", avatar |-> "v.png", model |-> "m1", system_prompt |-> "p.txt"]

\* str.startswith("You")
StartsWithYou(v) == v \in {"You are Bo", "You.txt", "You are a cat", "You are you"}
\* str.strip of a prompt file's text
StripPrompt(text) ==
    CASE text = " You are a cat " -> "You are a cat"
      [] text = " You are you " -> "You are you"
      [] OTHER -> text

\* The body of the loop for one file: "store" with the record, "continue"
\* (skipped by the loader's own checks) or "except" (an exception was raised
\* inside the try block).
LegacyStep(kind, prompts) ==
    CASE kind = "bad_json" -> [ctl |-> "except", rec |-> <<>>]
      [] kind = "a_list" -> [ctl |-> "continue", rec |-> <<>>]
      [] kind = "no_greeting" -> [ctl |-> "continue", rec |-> <<>>]
      [] kind = "null_prompt" -> [ctl |-> "except", rec |-> <<>>]
      [] OTHER ->
           LET data == LegacyData(kind)
           IN IF StartsWithYou(data.system_prompt)
              THEN [ctl |-> "store", rec |-> <<data>>]
              ELSE IF data.system_prompt \in prompts
              THEN [ctl |-> "store",
                    rec |-> <<[data EXCEPT
                                 !.system_prompt = StripPrompt(PromptFileText(data.system_prompt))]>>]
              ELSE [ctl |-> "continue", rec |-> <<>>]

\* (variant: one try block around the whole loop)
RECURSIVE LegacyLoop_TryOutside(_, _, _, _)
LegacyLoop_TryOutside(order, dir, prompts, loaded) ==
    IF order = <<>> THEN loaded
    ELSE IF dir[Head(order)] = NoEntry
    THEN LegacyLoop_TryOutside(Tail(order), dir, prompts, loaded)
    ELSE IF LegacyStep(dir[Head(order)], prompts).ctl = "except" THEN loaded
    ELSE LegacyLoop_TryOutside(
             Tail(order), dir, prompts,
             IF LegacyStep(dir[Head(order)], prompts).ctl = "store"
             THEN (Head(order) :> LegacyStep(dir[Head(order)], prompts).rec[1]) @@ loaded
             ELSE loaded)

\* the loop over char_dir.glob("*.json") in the order the directory gives
RECURSIVE LegacyLoop(_, _, _, _)
LegacyLoop(order, dir, prompts, loaded) ==
    IF order = <<>> THEN loaded
    ELSE LegacyLoop(
             Tail(order), dir, prompts,
             IF dir[Head(order)] # NoEntry /\ LegacyStep(dir[Head(order)], prompts).ctl = "store"
             THEN (Head(order) :> LegacyStep(dir[Head(order)], prompts).rec[1]) @@ loaded
             ELSE loaded)

\* What the module-level code leaves in CHARACTERS.
LegacyInputs ==
    [exists : BOOLEAN,
     order : {LegacyStems, <<"c", "b", "a">>},
     dir : [{"a", "b", "c"} -> {"by_file", "inline", "you_file", "bad_json", NoEntry}]
           \cup [{"a", "b", "c"} -> {"by_file", "other_text", "no_greeting", "null_prompt", "a_list"}],
     prompts : SUBSET LegacyPromptFiles]

LegacyInit ==
    /\ pfn = "load_characters"
    /\ pargs \in LegacyInputs
    /\ pout = <<>>
    /\ FilesInit /\ SessionsIdle /\ UsersIdle /\ ServerIdle /\ FetchIdle /\ ListIdle /\ StreamIdle

LegacyLoad ==
    /\ pfn = "load_characters"
    /\ pout = <<>>
    /\ pout' = <<IF pargs.exists
                 THEN LegacyLoop(pargs.order, pargs.dir, pargs.prompts, <<>>)
                 ELSE <<>>>>
    /\ UNCHANGED <<pfn, pargs, fileVars, serverVars, fetchVars, listVars, configVars, userVars, sessionVars,
                   streamVars>>

SpecLegacy == LegacyInit /\ [][LegacyLoad]_vars

\* ==================================== streams of cumulative content events
\* stream_chat on the streams of an Ollama-compatible backend that answers
\* 200: lines of every kind except "token" lines, then the end of the stream.
ContentLines == {l \in Lines : l.body.kind # "token"}

DeltasInit ==
    /\ chatUrlSet = TRUE
    /\ spc = "new"
    /\ last = <<>>
    /\ yields = <<>>
    /\ nlines = 0
    /\ line = NoLine
    /\ events = <<>>
    /\ posts = <<>>
    /\ streamErr = None
    /\ fb = NoFallback
    /\ raised = None
    /\ FilesInit /\ SessionsIdle /\ UsersIdle /\ ServerIdle /\ FetchIdle /\ ListIdle /\ CallIdle

DeltasNext ==
    \/ \E m \in Models : StreamStart(m, "ok")
    \/ \E l \in ContentLines : StreamLine(l)
    \/ StreamClose

SpecDeltas == DeltasInit /\ [][DeltasNext]_vars

\* ======================= the chat sessions of a process and the shared client
\* Every handler of the chat UI sends its requests through the module's one
\* httpx.AsyncClient.  A request on a client that was closed raises
\* RuntimeError("Cannot send a request, as the client has been closed.")
\* before anything is sent.
ClientSend(c) == IF c = "open" THEN "sent" ELSE "RuntimeError"

SessionFrame ==
    UNCHANGED <<fileVars, serverVars, fetchVars, listVars, callVars, configVars, userVars,
                streamVars>>

\* on_chat_start: a session begins (the client is the module's, as it is)
ChatStart(s) ==
    /\ sess[s].state = "none"
    /\ sess' = [sess EXCEPT ![s] = [state |-> "active", last |-> "none"]]
    /\ UNCHANGED client
    /\ SessionFrame

\* An active session fetches characters: client.get of fetch_characters_list
\* or fetch_character_private.
SessionFetch(s) ==
    /\ sess[s].state = "active"
    /\ sess' = [sess EXCEPT ![s].last =
                  IF ClientSend(client) = "sent" THEN "fetched" ELSE "fetch_failed"]
    /\ UNCHANGED client
    /\ SessionFrame

\* An active session sends a message: main runs stream_chat, whose
\* client.stream raises inside the try block when the client is closed; the
\* RuntimeError meets no except clause of stream_chat and main reports it.
SessionChat(s) ==
    /\ sess[s].state = "active"
    /\ sess' = [sess EXCEPT ![s].last =
                  IF ClientSend(client) = "sent" THEN "streamed"
                  ELSE IF ExceptClause("runtime") = "propagate" THEN "chat_error"
                  ELSE "streamed"]
    /\ UNCHANGED client
    /\ SessionFrame

\* on_chat_end of session s: await client.aclose()
ChatEnd(s) ==
    /\ sess[s].state = "active"
    /\ sess' = [sess EXCEPT ![s].state = "ended"]
    /\ client' = "closed"
    /\ SessionFrame

SessionsInit ==
    /\ SessionsIdle
    /\ FilesInit /\ UsersIdle /\ ServerIdle /\ FetchIdle /\ ListIdle /\ CallIdle /\ StreamIdle

SessionsNext ==
    \/ \E s \in Sessions : ChatStart(s)
    \/ \E s \in Sessions : SessionFetch(s)
    \/ \E s \in Sessions : SessionChat(s)
    \/ \E s \in Sessions : ChatEnd(s)

SpecSessions == SessionsInit /\ [][SessionsNext]_vars

\* ========================================== file_fingerprint on its own
\* A path and what stat finds there: no file, or a file written at some
\* time (in half seconds) with some content.
StatsAt(path) ==
    {NoFile} \cup [exists : {TRUE}, mtime : 0..MaxClock, content : ContentsOf(path)]
Probes == UNION {[path : {q}, stat : StatsAt(q)] : q \in {ConfigPath("cat"), PromptPath, AvatarPath}}
\* the file system in which probe is the case
ProbeFiles(probe) == [InitFiles EXCEPT ![probe.path] = probe.stat]

FingerprintInit ==
    /\ pfn = "file_fingerprint"
    /\ pargs \in [a : Probes, b : Probes]
    /\ pout = <<>>
    /\ FilesInit /\ SessionsIdle /\ UsersIdle /\ ServerIdle /\ FetchIdle /\ ListIdle /\ StreamIdle

\* file_fingerprint is called on each of the two paths
FingerprintReturn ==
    /\ pfn = "file_fingerprint"
    /\ pout = <<>>
    /\ pout' = <<file_fingerprint(ProbeFiles(pargs.a), pargs.a.path),
                 file_fingerprint(ProbeFiles(pargs.b), pargs.b.path)>>
    /\ UNCHANGED <<pfn, pargs, fileVars, serverVars, fetchVars, listVars, configVars, userVars, sessionVars, streamVars>>

SpecFingerprint == FingerprintInit /\ [][FingerprintReturn]_vars

\* ------------------------------------------------ the service's API key
\* The service starts with CHAR_API_KEY unset or set; requests come with the
\* configured key, without a key or with another one, while files are removed.
AuthInit ==
    /\ API_KEY \in ApiKeys
    /\ NoExchange /\ FilesInit /\ SessionsIdle /\ UsersIdle /\ FetchIdle /\ ListIdle /\ CallIdle /\ StreamIdle

AuthNext ==
    \/ \E p \in Paths : DeleteFile(p)
    \/ \E r \in Requests(files, held) \cup KeylessRequests(held) : Serve(r)
    \/ \E keep \in BOOLEAN : Done(keep)

SpecAuth == AuthInit /\ [][AuthNext]_vars

\* ================================================================ claims
\* --------------------------------------------------------------- C1
\* C1: in fetch_character_private(id), when the first GET is answered 304 and
\* CHAR_PRIVATE_CACHE holds no (non-empty) entry for id, the call sends
\* exactly one further GET, of the same URL and without If-None-Match; when
\* that retry is answered 200 with a JSON body, the ETag and the body are
\* stored for id and the body is returned.  A call never sends more than two
\* GETs, and a call that got a 304 returns either the non-empty cached record
\* or the record of the retry's 200, never an empty or missing one.
C1_RetryOnEmptyCache ==
    /\ [][(fpc = "await1" /\ fpc' # "await1" /\ answers'[1].status = 304
              /\ ~CachedTruthy(CHAR_PRIVATE_CACHE[fid]))
            => /\ fpc' = "await2"
               /\ gets' = <<gets[1], [gets[1] EXCEPT !.inm = <<>>]>>
               /\ UNCHANGED <<CHAR_PRIVATE_ETAGS, CHAR_PRIVATE_CACHE>>]_vars
    /\ [][(fpc = "await2" /\ fpc' # "await2" /\ answers'[2].status = 200
              /\ JsonParses(answers'[2].text))
            => /\ CHAR_PRIVATE_ETAGS'[fid] =
                     <<IF answers'[2].etag = <<>> THEN "" ELSE answers'[2].etag[1]>>
               /\ CHAR_PRIVATE_CACHE'[fid] = <<Json(answers'[2].text)>>
               /\ fres' = Returned(<<Json(answers'[2].text)>>)
               /\ gets' = gets]_vars
    /\ [](Len(gets) <= 2)
    /\ []((fres.kind = "return" /\ answers[1].status = 304) =>
            \/ /\ Len(gets) = 1
               /\ fres.value = CHAR_PRIVATE_CACHE[fid]
               /\ CachedTruthy(fres.value)
            \/ /\ Len(gets) = 2
               /\ gets[2] = PrivateGet(fid, <<>>)
               /\ answers[2].status = 200
               /\ fres.value = <<Json(answers[2].text)>>)

\* a conditional GET answered 304 with nothing cached, the retry answered 200
C1_Witness ==
    /\ fpc = "done"
    /\ Len(gets) = 2
    /\ gets[1].inm = <<"e1">>
    /\ gets[2] = PrivateGet(fid, <<>>)
    /\ answers[1].status = 304
    /\ answers[2].status = 200
    /\ answers[2].etag = <<"e2">>
    /\ CHAR_PRIVATE_ETAGS[fid] = <<"e2">>
    /\ fres = Returned(<<{<<"name", "Cat">>}>>)
    /\ CHAR_PRIVATE_CACHE[fid] = fres.value

\* ------------------------------------------------- C2-C6: helpers
Authorized(r) == r.ep # "none" /\ require_auth(r)

\* the resource the request names exists
Existing(fs, r) ==
    CASE r.ep = "list" -> TRUE
      [] r.ep = "detail" -> IsFile(fs, ConfigPath(r.id))
      [] r.ep = "avatar" -> safe_filename(r.id) /\ IsFile(fs, <<AVATAR_DIR, r.id>>)
      [] OTHER -> FALSE

\* the request's If-None-Match equals the ETag computed from the files
MatchesETag(fs, r) ==
    /\ r.inm # <<>>
    /\ CASE r.ep = "list" -> r.inm[1] = compute_char_list_etag(fs)
         [] r.ep = "detail" ->
              /\ Parses(ConfigText(fs, r.id))
              /\ r.inm[1] = compute_character_etag(fs, ConfigPath(r.id),
                                                   ConfigOf(ConfigText(fs, r.id)))
         [] r.ep = "avatar" -> r.inm[1] = AvatarEtag(fs, <<AVATAR_DIR, r.id>>)
         [] OTHER -> FALSE

\* C2: for the list, a detail and an avatar request on an existing resource,
\* the response is 304 with no body exactly when If-None-Match equals the ETag
\* computed from the files at the time of the request, and is the 200 response
\* otherwise.
C2_ConditionalGet ==
    (Authorized(req) /\ Existing(files, req)) =>
        IF MatchesETag(files, req)
        THEN resp.status = 304 /\ resp.body = NoBody
        ELSE resp.status = 200 /\ resp.body # NoBody

\* ---------------------------------------------------------------- stream

\* c with the prefix p removed, when c starts with p (stated with
\* concatenation, not with the slice the code takes)
SuffixesOf(c) == {SubSeq(c, i, Len(c)) : i \in 1..(Len(c) + 1)}
HasPrefix(c, p) == \E d \in SuffixesOf(c) : p \o d = c
WithoutPrefix(c, p) == CHOOSE d \in SuffixesOf(c) : p \o d = c

\* --------------------------------------------------------------- C3
\* The ETag header of an unconditional GET /characters/{id} (<<>>: none)
DetailETag(fs, id) ==
    Handle(fs, [ep |-> "detail", id |-> id, view |-> "", inm |-> <<>>, key |-> API_KEY]).etag

\* the files the character's config names
ReferencedBy(fs, id) ==
    IF ~(IsFile(fs, ConfigPath(id)) /\ Parses(ConfigText(fs, id))) THEN {}
    ELSE LET data == ConfigOf(ConfigText(fs, id))
             ref(v, dir) == IF IsText(v) THEN {<<dir, Strip(v)>>} ELSE {}
         IN ref(Get(data, "system_prompt"), PROMPT_DIR)
            \cup ref(Get(data, "character_background"), INFO_DIR)
            \cup (IF HasMatrix(data)
                  THEN ref(Get(data["matrix"], "append_rules"), PROMPT_DIR) ELSE {})

Contributes(fs, id, path) == path = ConfigPath(id) \/ path \in ReferencedBy(fs, id)

\* this step edits the file at path: it is created, deleted or its content changes
Edits(path) ==
    /\ \A q \in Paths \ {path} : files'[q] = files[q]
    /\ \/ files'[path].exists # files[path].exists
       \/ files'[path].content # files[path].content

\* C3 as stated: every edit of a file that contributes to a character's
\* detail ETag changes the ETag GET /characters/{id} returns, and leaves the
\* detail ETag of a character that does not reference the file unchanged.
C3_Original ==
    [][\A path \in Paths, id \in CharIds :
          (Edits(path) /\ DetailETag(files, id) # <<>>) =>
              IF Contributes(files, id, path)
              THEN DetailETag(files', id) # DetailETag(files, id)
              ELSE DetailETag(files', id) = DetailETag(files, id)]_vars

\* C3 amended: an edit of a contributing file changes the detail ETag
\* whenever it changes the file's fingerprint, that is its existence, its
\* modification time in whole seconds or its size; the detail ETag of a
\* character that does not reference the edited file is unchanged.
C3_Amended ==
    [][\A path \in Paths, id \in CharIds :
          (Edits(path) /\ DetailETag(files, id) # <<>>) =>
              IF Contributes(files, id, path)
              THEN (file_fingerprint(files', path) # file_fingerprint(files, path)
                        => DetailETag(files', id) # DetailETag(files, id))
              ELSE DetailETag(files', id) = DetailETag(files, id)]_vars

\* the prompt file was rewritten a second later: the ETag kept from before
\* the edit no longer matches, and the other character's ETag is as it was
C3_Witness ==
    /\ files[PromptPath].content = "P2"
    /\ files[PromptPath].mtime = 2
    /\ req.ep = "detail" /\ req.id = "cat"
    /\ held = DetailETag(InitFiles, "cat")
    /\ req.inm = held
    /\ resp.status = 200
    /\ resp.etag # held
    /\ DetailETag(files, "bo") = DetailETag(InitFiles, "bo")

\* --------------------------------------------------------------- C4
\* the strings of a lightweight record
TextsOf(body) ==
    {body[k] : k \in (DOMAIN body) \ {"aliases", "avatar_url"}}
    \cup {body.aliases[i] : i \in 1..Len(body.aliases)}
    \cup {body.avatar_url[i] : i \in 1..Len(body.avatar_url)}

PrivateSystem(fs, id) == PromptsOf(fs, ConfigOf(ConfigText(fs, id))).system

\* C4: a view=public detail response has no prompts, system_prompt or
\* character_background field, holds none of the text of the character's
\* private prompts.system and has the body every unconditional request gets
\* whatever the prompt file holds;
\* the private view, which is also the view when the parameter is omitted,
\* carries the prompts bundle.
C4_PublicHidesPrompts ==
    (Authorized(req) /\ req.ep = "detail" /\ resp.status = 200) =>
        IF req.view = "public"
        THEN /\ DOMAIN resp.body \cap {"prompts", "system_prompt", "character_background",
                                       "matrix", "secrets"} = {}
             /\ PrivateSystem(files, req.id) # "" =>
                    PrivateSystem(files, req.id) \notin TextsOf(resp.body)
             /\ \A c \in ContentsOf(PromptPath) :
                    Handle([files EXCEPT ![PromptPath].content = c],
                           [req EXCEPT !.inm = <<>>]).body = resp.body
        ELSE /\ "prompts" \in DOMAIN resp.body
             /\ resp.body.prompts.system = PrivateSystem(files, req.id)

C4_Witness ==
    /\ req.ep = "detail" /\ req.id = "cat" /\ req.view = "public"
    /\ resp.status = 200
    /\ PrivateSystem(files, "cat") = "P2"
    /\ resp.body.name = "Cat"

\* --------------------------------------------------------------- C5
FileNames == {p[2] : p \in Paths}

\* the character's config names, in one of the three fields, a file that
\* does not exist
NamesMissingFile(fs, id) == \E p \in ReferencedBy(fs, id) : p[2] \in FileNames /\ ~IsFile(fs, p)

\* C5: resolving a character whose system_prompt, character_background or
\* append_rules field names a file that does not exist fails with an error,
\* and the prompts of a resolved character are never a bare file name.
C5_MissingFileFails ==
    (Authorized(req) /\ req.ep = "detail" /\ ViewOf(req) = "private"
        /\ resp.status # 304) =>
        /\ NamesMissingFile(files, req.id) => resp.status >= 400
        /\ resp.status = 200 =>
              \A k \in DOMAIN resp.body.prompts : resp.body.prompts[k] \notin FileNames

\* --------------------------------------------------------------- C6
RECURSIVE ParsedOnly(_, _)
ParsedOnly(fs, ids) ==
    IF ids = <<>> THEN <<>>
    ELSE IF Parses(ConfigText(fs, Head(ids)))
    THEN <<Head(ids)>> \o ParsedOnly(fs, Tail(ids))
    ELSE ParsedOnly(fs, Tail(ids))

\* C6: when a character configuration file holds malformed JSON, the list
\* request is still answered 200 with the records of all the other
\* characters, and only the malformed character is left out.
C6_MalformedIsolated ==
    (Authorized(req) /\ req.ep = "list" /\ ~MatchesETag(files, req)
        /\ \E id \in CharIds : IsFile(files, ConfigPath(id)) /\ ~Parses(ConfigText(files, id)))
    => /\ resp.status = 200
       /\ "characters" \in DOMAIN resp.body
       /\ [i \in 1..Len(resp.body.characters) |-> resp.body.characters[i].id]
              = ParsedOnly(files, SortedIds(files))

\* --------------------------------------------------------------- C7-C10
\* C7: for each event carrying cumulative content c, with last the content
\* seen before it, the delta is c without the prefix last when c starts with
\* last and the whole of c otherwise; last becomes c; the delta is yielded
\* only when it is not empty.  Events "Hi", "Hi there", "Hi there!" yield
\* "Hi", " there", "!" and events "Hello", "Bye" yield "Hello", "Bye".
C7_DeltaRule ==
    /\ [](/\ (nlines = 3 /\ events = <<Hi, HiThere, HiThereBang>>)
               => yields = <<Hi, <<2>>, <<1>>>>
          /\ (nlines = 2 /\ events = <<Hello, Bye>>)
               => yields = <<Hello, Bye>>)
    /\ [][events' # events =>
            LET c == events'[Len(events')]
                delta == IF HasPrefix(c, last) THEN WithoutPrefix(c, last) ELSE c
            IN /\ last' = c
               /\ yields' = IF delta # <<>> THEN Append(yields, delta) ELSE yields]_vars

C7_Witness ==
    /\ nlines = 3
    /\ events = <<Hi, HiThere, HiThereBang>>
    /\ yields = <<Hi, <<2>>, <<1>>>>
    /\ last = HiThereBang

\* C8: when the streaming request fails with an HTTP error status and the
\* non-streaming request that follows succeeds with a reply field, the
\* generation yields exactly one value, that reply, and completes normally.
C8_FallbackReply ==
    (streamErr = "status" /\ fb.state = "reply")
        => (spc = "done" /\ yields = <<fb.reply>> /\ raised = None)

C8_Witness ==
    /\ streamErr = "status"
    /\ fb.state = "reply"
    /\ fb.reply = <<1>>
    /\ yields = <<<<1>>>>
    /\ spc = "done"

C10_TimeoutFatal ==
    streamErr = "timeout" =>
        /\ spc = "raised"
        /\ raised = "Request timed out"
        /\ Len(posts) = 1
        /\ posts[1].stream
        /\ fb = NoFallback

C10_Witness ==
    /\ streamErr = "timeout"
    /\ yields # <<>>
    /\ raised = "Request timed out"

\* --------------------------------------------------------------- C11
\* C11: a generation issues at most one fallback request, and only after an
\* HTTP-status failure of the streaming request; the fallback request carries
\* the model and messages of the streaming request with stream false; when
\* the fallback fails, the failure is raised to the caller and the
\* generation has emitted nothing.
C11_OneFallback ==
    /\ Len(posts) <= 2
    /\ \A i \in 1..Len(posts) : (~posts[i].stream) => i = 2
    /\ Len(posts) = 2 =>
          /\ streamErr = "status"
          /\ posts[1].stream
          /\ posts[2] = [model |-> posts[1].model, messages |-> posts[1].messages,
                         stream |-> FALSE]
    /\ fb # NoFallback => Len(posts) = 2
    /\ fb.state = "failed" =>
          /\ spc = "raised"
          /\ raised = "FallbackError"
          /\ yields = <<>>

C11_Witness ==
    /\ posts = <<Payload("m2", TRUE), Payload("m2", FALSE)>>
    /\ fb.state = "failed"
    /\ raised = "FallbackError"
    /\ yields = <<>>

\* --------------------------------------------------------------- C12
\* the handler of process p ends in this step after its list fetch failed
EndsFailed(p) ==
    /\ lpc[p] \in {"answered", "etag_saved"}
    /\ lpc'[p] = "done"
    /\ lres'[p].fetch = "failed"

\* C12: when the list request of chat_profiles or start fails (no answer,
\* an error status, a body that cannot be read, no URL configured), the
\* handler continues with the payload the payload file holds, or with the
\* empty list when there is no file, and then reports that no characters
\* are available; no handler ends with an exception raised.
C12_ListFailureUsesCache ==
    /\ [][\A p \in Procs : EndsFailed(p) =>
             /\ CHAR_LIST'[p] = load_cached_characters(payloadFile)
             /\ payloadFile = <<>> => CHAR_LIST'[p] = <<>>
             /\ payloadFile' = payloadFile
             /\ lres'[p].raised = None]_vars
    /\ [](\A p \in Procs :
             /\ lres[p].raised = None
             /\ (~charUrlSet /\ lpc[p] = "done") =>
                   /\ lres[p].fetch \in {"failed", "none"}
                   /\ CHAR_LIST[p] = load_cached_characters(payloadFile)
             /\ lres[p].fetch = "failed" =>
                   lres[p].shown = IF CHAR_LIST[p] = <<>> THEN "no_characters" ELSE "profiles")

\* the service changed, the fetch of start failed, the older payload is used
C12_Witness ==
    /\ charUrlSet
    /\ version = 2
    /\ lres["A"] = [handler |-> "start", fetch |-> "failed", shown |-> "profiles",
                    raised |-> None]
    /\ CHAR_LIST["A"] = ListAt(1)
    /\ lres["B"].fetch = "failed"
    /\ lres["B"].handler = "chat_profiles"

\* --------------------------------------------------------------- C13
\* C13: in fetch_characters_list, handling a 304 leaves the etag file and
\* the payload file as they are and returns the payload the file holds; a 200
\* that carries an ETag header and a JSON body has its etag written to the
\* etag file and its characters to the payload file, and the characters are
\* returned.
C13_ListFrame ==
    [][\A p \in Procs :
          /\ (lpc[p] = "answered" /\ lpc'[p] # "answered" /\ lresp[p].status = 304) =>
                /\ etagFile' = etagFile
                /\ payloadFile' = payloadFile
                /\ lres'[p].fetch = "ok"
                /\ CHAR_LIST'[p] = IF payloadFile = <<>> THEN <<>> ELSE payloadFile[1].json
          /\ (lpc[p] = "answered" /\ lpc'[p] # "answered" /\ lresp[p].status = 200
                 /\ lresp[p].etag # <<>>) =>
                /\ etagFile' = lresp[p].etag
                /\ lpc'[p] = "etag_saved"
          /\ (lpc[p] = "etag_saved" /\ lpc'[p] # "etag_saved"
                 /\ lresp[p].body.kind = "json") =>
                /\ payloadFile' = <<[json |-> lresp[p].body.chars]>>
                /\ etagFile' = etagFile
                /\ lres'[p].fetch = "ok"
                /\ CHAR_LIST'[p] = lresp[p].body.chars]_vars

\* A replaced the persisted revision-1 pair by the 200 of revision 2, and B
\* was then answered 304 and returned the payload A wrote
C13_Witness ==
    /\ version = 2
    /\ lpc = [p \in Procs |-> "done"]
    /\ lresp["A"] = ServiceList(2, <<ETagAt(1)>>)
    /\ lresp["B"].status = 304
    /\ etagFile = <<ETagAt(2)>>
    /\ payloadFile = <<JsonDumps(ListAt(2))>>
    /\ CHAR_LIST["A"] = ListAt(2)
    /\ CHAR_LIST["B"] = ListAt(2)
    /\ lres["B"].fetch = "ok"

\* --------------------------------------------------------------- C14
\* the response process p holds is the service's answer from the directory
\* as it still is
ServedCurrent(p) ==
    /\ lresp[p].etag = <<ETagAt(version)>>
    /\ \/ lresp[p].status = 304
       \/ lresp[p].status = 200 /\ lresp[p].body = [kind |-> "json", chars |-> ListAt(version)]

\* C14: whatever the interleaving of the two processes' writes of the etag
\* file and of the payload file has been, a fetch_characters_list that
\* returns while the other process is at rest, answered by the service from
\* the unchanged directory, returns the service's current list and not an
\* older one.
C14_SelfCorrecting ==
    [][\A p \in Procs :
          (/\ lpc[p] \in {"answered", "etag_saved"}
           /\ lpc'[p] = "done"
           /\ lres'[p].fetch = "ok"
           /\ ServedCurrent(p)
           /\ \A q \in Procs \ {p} : lpc[q] \in {"idle", "done"})
          => CHAR_LIST'[p] = ListAt(version)]_vars

\* --------------------------------------------------------------- C15
\* the call in progress ends in this step, returning the body of a 200
FetchStores ==
    /\ fpc \in {"await1", "await2"}
    /\ fpc' = "done"
    /\ fres'.kind = "return"
    /\ answers'[Len(answers')].status = 200

\* the call in progress ends in this step, answered 304 with a record cached
FetchHits ==
    /\ fpc = "await1"
    /\ fpc' = "done"
    /\ answers'[1].status = 304
    /\ fres'.kind = "return"

\* C15: the cached record of an id is created and replaced by the fetches of
\* that id that return the body of a non-304 response, and by nothing else:
\* each such fetch stores the response's body and ETag for the id; a 304 that
\* finds a record cached leaves the record and the ETag of every id as they
\* are; no entry is ever removed.
C15_CacheLifecycle ==
    [][/\ FetchStores =>
             /\ CHAR_PRIVATE_CACHE'[fid] = <<Json(answers'[Len(answers')].text)>>
             /\ CHAR_PRIVATE_ETAGS'[fid] =
                   <<IF answers'[Len(answers')].etag = <<>> THEN ""
                     ELSE answers'[Len(answers')].etag[1]>>
       /\ FetchHits =>
             /\ CHAR_PRIVATE_CACHE' = CHAR_PRIVATE_CACHE
             /\ CHAR_PRIVATE_ETAGS' = CHAR_PRIVATE_ETAGS
             /\ fres'.value = CHAR_PRIVATE_CACHE[fid]
       /\ \A id \in CharIds :
             /\ CHAR_PRIVATE_CACHE'[id] # CHAR_PRIVATE_CACHE[id] => (FetchStores /\ id = fid)
             /\ CHAR_PRIVATE_CACHE[id] # <<>> => CHAR_PRIVATE_CACHE'[id] # <<>>
             /\ CHAR_PRIVATE_ETAGS[id] # <<>> => CHAR_PRIVATE_ETAGS'[id] # <<>>]_vars

\* both ids cached; the record of cat was fetched again with the ETag of an
\* earlier fetch and replaced by the body of the 200
C15_Witness ==
    /\ fpc = "done" /\ fid = "cat"
    /\ gets = <<PrivateGet("cat", <<"e1">>)>>
    /\ answers[1].status = 200
    /\ answers[1].etag = <<"e2">>
    /\ fres.kind = "return"
    /\ CHAR_PRIVATE_CACHE["cat"] = <<{<<"name", "Bo">>}>>
    /\ CHAR_PRIVATE_ETAGS["cat"] = <<"e2">>
    /\ CHAR_PRIVATE_CACHE["bo"] = <<{<<"name", "Bo">>}>>

\* --------------------------------------------------------------- C16
\* the non-blank texts of a list, stripped, in order
NonBlank(v) == SelectSeq([i \in 1..Len(v) |-> Strip(v[i])], LAMBDA x : x # "")
OneText(v) == IF v # Null /\ Strip(v) # "" THEN <<Strip(v)>> ELSE <<>>

\* the candidates in the order of the claim: name, nickname, the alias
\* lists, the aliases of the matrix block, the id
AliasCandidates(data, id) ==
    OneText(IF "name" \in DOMAIN data THEN data.name ELSE Null)
    \o OneText(IF "nickname" \in DOMAIN data THEN data.nickname ELSE Null)
    \o (IF "nicknames" \in DOMAIN data THEN NonBlank(data.nicknames) ELSE <<>>)
    \o (IF "aliases" \in DOMAIN data THEN NonBlank(data.aliases) ELSE <<>>)
    \o (IF "matrix" \in DOMAIN data THEN NonBlank(data.matrix.aliases) ELSE <<>>)
    \o <<id>>

\* the positions of c that hold the first text with their lower-case form
FirstSeen(c) == {k \in 1..Len(c) : \A j \in 1..(k - 1) : Lower(c[j]) # Lower(c[k])}

\* C16: build_aliases(record, id) returns the name, the nickname, the alias
\* lists, the matrix block's aliases and the id, in that order, each text the
\* first seen with its lower-case form: no two returned aliases are equal
\* ignoring case and one of them equals the id ignoring case.  For name
\* "Cat", nickname "Cat" and id "cat" the result is exactly <<"Cat">>.
C16_Aliases ==
    (pfn = "build_aliases" /\ pout # <<>>) =>
        LET out == pout[1]
            c == AliasCandidates(pargs.data, pargs.id)
        IN /\ Len(out) = Cardinality(FirstSeen(c))
           /\ \A i \in 1..Len(out) :
                 \E k \in FirstSeen(c) :
                    /\ Cardinality({j \in FirstSeen(c) : j <= k}) = i
                    /\ out[i] = c[k]
           /\ \A i, j \in 1..Len(out) : i # j => Lower(out[i]) # Lower(out[j])
           /\ \E i \in 1..Len(out) : Lower(out[i]) = Lower(pargs.id)
           /\ (pargs = [data |-> [name |-> "Cat", nickname |-> "Cat",
                                  nicknames |-> <<>>, aliases |-> <<>>],
                        id |-> "cat"])
                 => out = <<"Cat">>

C16_Witness ==
    /\ pfn = "build_aliases"
    /\ pargs.data.name = "Cat" /\ pargs.data.nickname = "Cat" /\ pargs.id = "cat"
    /\ "matrix" \notin DOMAIN pargs.data
    /\ pargs.data.nicknames = <<>> /\ pargs.data.aliases = <<>>
    /\ pout = <<<<"Cat">>>>

\* --------------------------------------------------------------- C17
\* the records a response body holds: the body itself and, for a list, its items
RecordsOf(body) ==
    {body} \cup (IF "characters" \in DOMAIN body
                 THEN {body.characters[i] : i \in 1..Len(body.characters)}
                 ELSE {})

\* the raw record behind a request carries a secrets field
RawHasSecrets(fs, r) ==
    \E id \in CharIds :
        /\ r.ep = "list" \/ (r.ep = "detail" /\ r.id = id)
        /\ IsFile(fs, ConfigPath(id)) /\ Parses(ConfigText(fs, id))
        /\ "secrets" \in DOMAIN ConfigOf(ConfigText(fs, id))

\* C17: no response of the directory service (list, public detail, private
\* detail, whatever its status) holds a secrets field, at the top of the body
\* or in an item of the list.
C17_NoSecrets ==
    \A rec \in RecordsOf(resp.body) : "secrets" \notin DOMAIN rec

C17_Witness ==
    /\ req.ep = "detail" /\ req.id = "cat" /\ ViewOf(req) = "private"
    /\ RawHasSecrets(files, req)
    /\ resp.status = 200
    /\ "prompts" \in DOMAIN resp.body
    /\ "secrets" \notin DOMAIN resp.body

\* --------------------------------------------------------------- C18
\* the name is empty or contains '/', '\' or '..'
Traversing(name) ==
    \/ name = ""
    \/ \E i \in 1..Len(NameChars(name)) :
          \/ NameChars(name)[i] \in {"/", "\\"}
          \/ i < Len(NameChars(name)) /\ NameChars(name)[i] = "." /\ NameChars(name)[i + 1] = "."

\* C18: an avatar request (with the API key) whose filename is empty or
\* contains '/', '\' or '..' is answered 400 whatever the files are, those the
\* name leads to included; a safe filename with no file behind it is answered
\* 404; a 200 or 304 serves or fingerprints a file of the avatar directory.
C18_AvatarNames ==
    (Authorized(req) /\ req.ep = "avatar") =>
        /\ Traversing(req.id) =>
              /\ resp = ErrorResp(400, "Invalid filename")
              /\ \A p \in Paths : Handle([files EXCEPT ![p] = NoFile], req) = resp
        /\ (~Traversing(req.id) /\ ~IsFile(files, <<AVATAR_DIR, req.id>>)) =>
              resp.status = 404
        /\ resp.status \in {200, 304} =>
              /\ AvatarFile(req.id) = <<AVATAR_DIR, req.id>>
              /\ AvatarFile(req.id) \in Paths
              /\ resp.status = 200 => resp.body.file = files[<<AVATAR_DIR, req.id>>].content

\* a name that leads to an existing file outside the avatar directory is refused
C18_Witness ==
    /\ Authorized(req) /\ req.ep = "avatar"
    /\ req.id = "../../characters/cat.json"
    /\ IsFile(files, AvatarFile(req.id))
    /\ AvatarFile(req.id)[1] = CHAR_DIR
    /\ resp.status = 400

\* --------------------------------------------------------------- C19
Unauthorized == ErrorResp(401, "Unauthorized")

\* the request carries no x-api-key header or one that is not the service's key
WithoutKey(r) == r.ep # "none" /\ (r.key = "" \/ r.key # API_KEY)

\* the answer does not depend on the files
BeforeFiles(r, answer) == \A p \in Paths : Handle([files EXCEPT ![p] = NoFile], r) = answer

\* C19 as stated: a list, detail or avatar request without the valid
\* x-api-key header is answered with the unauthorized error only: no data, no
\* ETag, no 304, no 404.
C19_Original ==
    WithoutKey(req) => resp = Unauthorized

\* C19, amended: when the service has an API key configured, a request
\* without that key is answered with the unauthorized error, whatever the
\* files are; when CHAR_API_KEY is unset (the default), no request is checked
\* and each is answered as the same request with any other key.
C19_Amended ==
    /\ (API_KEY # "" /\ WithoutKey(req)) =>
          /\ resp = Unauthorized
          /\ BeforeFiles(req, Unauthorized)
    /\ (API_KEY = "" /\ req.ep # "none") =>
          \A k \in RequestKeys : Handle(files, [req EXCEPT !.key = k]) = resp

\* a keyless request that would have been a 304 with the key
C19_Witness ==
    /\ API_KEY = "k1"
    /\ req.ep = "detail" /\ req.key = "" /\ req.inm # <<>>
    /\ Handle(files, [req EXCEPT !.key = API_KEY]).status = 304
    /\ resp = Unauthorized

\* --------------------------------------------------------------- C20
\* C20: a detail request (with the API key) for an id that has no config
\* file is answered 404 "Character not found" without an ETag, whatever the
\* view and whatever If-None-Match it carries; never 304 or 200.
C20_NoConfig404 ==
    (Authorized(req) /\ req.ep = "detail" /\ ~Stat(files, ConfigPath(req.id)).exists) =>
        /\ resp = ErrorResp(404, "Character not found")
        /\ \A v \in {"", "public", "private"}, i \in {<<>>, req.inm, held} :
              Handle(files, [req EXCEPT !.view = v, !.inm = i]).status = 404

\* the requester asks again, with the ETag it was given, after the file went
C20_Witness ==
    /\ req.ep = "detail" /\ req.id = "cat" /\ req.view = "public"
    /\ req.key = API_KEY
    /\ req.inm # <<>> /\ req.inm = held
    /\ ~Stat(files, ConfigPath("cat")).exists
    /\ resp.status = 404

\* --------------------------------------------------------------- C21
\* the last line read is [DONE], bare or after the data marker
ReadDone == nlines > 0 /\ line.body.kind = "done"
\* the last line read is blank after trimming
ReadBlank == nlines > 0 /\ ~line.sse /\ line.body.kind = "blank"

\* C21 as stated: once a [DONE] line or a line that is blank after trimming
\* has been read the stream has ended: nothing is yielded after it.
C21_Original ==
    [][(ReadDone \/ ReadBlank) => yields' = yields]_vars

\* C21, amended: a [DONE] line, bare or after the data marker, ends the
\* stream normally: after it the generator is done without an exception, no
\* further line is read and nothing more is yielded.  A blank line does not
\* end the stream: it yields nothing, leaves the last-seen content as it was
\* and the loop goes on to the next line.
C21_Amended ==
    [][/\ ReadDone =>
            /\ spc = "done" /\ raised = None
            /\ yields' = yields /\ nlines' = nlines /\ spc' = spc
       /\ (nlines' = nlines + 1 /\ ~line'.sse /\ line'.body.kind = "blank") =>
            /\ yields' = yields /\ last' = last
            /\ spc' = "streaming"]_vars

\* text had been yielded, then [DONE] after the data marker ended the stream
C21_Witness ==
    /\ ReadDone /\ line.sse
    /\ nlines = MaxLines - 1
    /\ yields # <<>>
    /\ spc = "done"

\* --------------------------------------------------------------- C22
\* the line is not [DONE] and what json.loads is given is not valid JSON:
\* garbage, or nothing but whitespace after the data marker
NotJson(l) == l.body.kind = "bad" \/ (l.sse /\ l.body.kind = "blank")

\* C22: reading a line that is not valid JSON yields nothing, leaves the
\* last-seen content unchanged and leaves the generator streaming with
\* everything but the line count as it was, so that the lines after it are
\* processed as they would have been without it.
C22_BadLineSkipped ==
    [][(nlines' = nlines + 1 /\ NotJson(line')) =>
          /\ yields' = yields /\ last' = last
          /\ spc' = "streaming" /\ raised' = raised /\ posts' = posts
          /\ events' = events /\ streamErr' = streamErr
          /\ \A l \in Lines : LineStep(l, last') = LineStep(l, last)]_vars

\* content was yielded, then a line that is not JSON was read: the output
\* and the last-seen content are those of the content line
C22_Witness ==
    /\ nlines = 2 /\ line.body.kind = "bad" /\ line.sse
    /\ Len(events) = 1 /\ events[1] # <<>>
    /\ yields = <<events[1]>> /\ last = events[1]
    /\ spc = "streaming"

\* --------------------------------------------------------------- C23
\* (name, mtime in seconds, size) of an existing file
MetaOf(fs, path) ==
    [name |-> path[2], missing |-> FALSE,
     mtime |-> fs[path].mtime \div 2, size |-> SizeOf(fs[path].content)]

\* the files whose metadata a list or detail request's ETag is taken of
ContributingTo(fs, r) ==
    IF r.ep = "list" THEN {ConfigPath(id) : id \in {i \in CharIds : IsFile(fs, ConfigPath(i))}}
    ELSE {ConfigPath(r.id)} \cup {q \in ReferencedBy(fs, r.id) : IsFile(fs, q)}

\* fs with the existing file at path rewritten, in the second of its last
\* write, with other content of the same size
SameMetadata(fs) ==
    {[fs EXCEPT ![e[1]].content = e[2]] :
        e \in {x \in Paths \X UNION {ContentsOf(q) : q \in Paths} :
                  /\ fs[x[1]].exists
                  /\ x[2] \in ContentsOf(x[1])
                  /\ SizeOf(x[2]) = SizeOf(fs[x[1]].content)}}

\* C23: the ETag of a list or detail response is the digest of the (name,
\* mtime in seconds, size) fingerprints of the contributing files, the config
\* file first for a detail and the config files in name order for the list;
\* it is the token an unconditional request computes from the same files
\* whatever was requested or kept before, and files with the same metadata
\* and the same contributing set give the same token.
C23_ETagOfMetadata ==
    (req.ep \in {"list", "detail"} /\ resp.etag # <<>>) =>
        LET parts == resp.etag[1].sha256
            fresh == [req EXCEPT !.inm = <<>>]
        IN /\ {parts[i] : i \in 1..Len(parts)}
                 = {MetaOf(files, q) : q \in ContributingTo(files, req)}
           /\ Len(parts) = Cardinality(ContributingTo(files, req))
           /\ req.ep = "detail" => parts[1] = MetaOf(files, ConfigPath(req.id))
           /\ (req.ep = "list" /\ Len(parts) = 2) => parts[1].name = ConfigName("bo")
           /\ Handle(files, fresh).etag = resp.etag
           /\ \A fs2 \in SameMetadata(files) :
                 ContributingTo(fs2, req) = ContributingTo(files, req)
                    => Handle(fs2, fresh).etag = resp.etag

\* the prompt file was rewritten half a second later with a text of the
\* same length: a conditional request with the ETag of before is still a 304
C23_Witness ==
    /\ req.ep = "detail" /\ req.id = "cat"
    /\ files[PromptPath].content = "P2" /\ files[PromptPath].mtime = 1
    /\ req.inm # <<>> /\ req.inm = held
    /\ resp.status = 304
    /\ resp.etag = DetailETag(InitFiles, "cat")

\* --------------------------------------------------------------- C24
\* the name, the whole seconds of the mtime and the size of a probe's file
NameOf(probe) == probe.path[2]
SecondsOf(probe) == probe.stat.mtime \div 2
BytesOf(probe) == SizeOf(probe.stat.content)

\* C24: file_fingerprint of a path with no file returns the fingerprint
\* "missing" of its name, which no existing file of that name has; two
\* fingerprints are equal exactly when the names are equal and either both
\* files are missing or both exist with the same mtime in whole seconds and
\* the same size.
C24_Fingerprint ==
    (pfn = "file_fingerprint" /\ pout # <<>>) =>
        LET a == pargs.a
            b == pargs.b
        IN /\ ~a.stat.exists =>
                 /\ pout[1].missing /\ pout[1].name = NameOf(a)
                 /\ (b.stat.exists /\ NameOf(b) = NameOf(a)) => pout[2] # pout[1]
           /\ a.stat.exists => ~pout[1].missing
           /\ pout[1] = pout[2] <=>
                 /\ NameOf(a) = NameOf(b)
                 /\ a.stat.exists = b.stat.exists
                 /\ a.stat.exists =>
                       (SecondsOf(a) = SecondsOf(b) /\ BytesOf(a) = BytesOf(b))

\* two texts of the same length written half a second apart within one
\* second have one fingerprint
C24_Witness ==
    /\ pfn = "file_fingerprint" /\ pout # <<>>
    /\ pargs.a.path = PromptPath /\ pargs.b.path = PromptPath
    /\ pargs.a.stat = [exists |-> TRUE, mtime |-> 0, content |-> "P1"]
    /\ pargs.b.stat = [exists |-> TRUE, mtime |-> 1, content |-> "P2"]
    /\ pout[1] = pout[2]

\* --------------------------------------------------------------- C25
\* the users whose row a successful create_user with this invite code made
CreatedWith(code) ==
    {u \in Usernames : createdBy[u] # <<>> /\ createdBy[u][1].code = <<code>>}

\* C25: an invite code is consumed by at most one successful create_user,
\* also when two calls with the same code and different usernames run
\* concurrently: at most one user was created with it.
C25_InviteSingleUse ==
    \A code \in InviteCodes : Cardinality(CreatedWith(code)) <= 1

\* --------------------------------------------------------------- C26
\* u exists, was never disabled or was enabled after its last disable, and
\* pw is the password it was created with
MayLogIn(u, pw) ==
    /\ createdBy[u] # <<>>
    /\ toggled[u] = <<>> \/ toggled[u][Len(toggled[u])] = "enable"
    /\ pw = createdBy[u][1].password

\* C26: verify_user(u, p) goes on to stamp last_login_at and return (True,
\* the role given at creation) exactly when, as it reads the row, u exists,
\* is not disabled and p is its password; otherwise it returns (False, "")
\* and leaves the users table as it is.
C26_VerifyUser ==
    [][\A p \in Procs :
          /\ (upc[p] = "vu_select" /\ upc'[p] # "vu_select") =>
                IF MayLogIn(ucall[p].username, ucall[p].password)
                THEN upc'[p] = "vu_stamp" /\ ures'[p] = NoResult
                ELSE upc'[p] = "idle" /\ ures'[p] = Returns(FALSE, "") /\ users' = users
          /\ (upc[p] = "vu_stamp" /\ upc'[p] # "vu_stamp") =>
                /\ ures'[p] = Returns(TRUE, createdBy[ucall[p].username][1].role)
                /\ users'[ucall[p].username].logins = users[ucall[p].username].logins + 1
          /\ (/\ ucall'[p].fn = "verify_user" /\ ures'[p] # ures[p]
              /\ ures'[p].kind = "return" /\ ures'[p].value[1]) =>
                upc[p] = "vu_stamp"]_vars

\* ann was disabled, then enabled, and logs in with her password
C26_Witness ==
    /\ toggled["ann"] = <<"disable", "enable">>
    /\ \E p \in Procs :
          /\ ucall[p].fn = "verify_user" /\ ucall[p].username = "ann"
          /\ ures[p] = Returns(TRUE, createdBy["ann"][1].role)
    /\ users["ann"].logins = 1

\* --------------------------------------------------------------- C27
\* C27: a create_user call for a username that has a row returns (False,
\* "Username already exists") at its first statement and changes neither
\* table; and no step of any call removes a row of users or replaces its
\* password hash or role, so the call ends that way whenever the username
\* existed when it was made.
C27_DuplicateUsername ==
    [][/\ \A p \in Procs :
            (/\ upc[p] = "cu_user" /\ upc'[p] # "cu_user"
             /\ users[ucall[p].username].exists) =>
                /\ ures'[p] = Returns(FALSE, "Username already exists")
                /\ upc'[p] = "idle"
                /\ users' = users /\ invites' = invites
       /\ \A u \in Usernames :
            users[u].exists =>
                /\ users'[u].exists
                /\ users'[u].pw_hash = users[u].pw_hash
                /\ users'[u].role = users[u].role]_vars

\* ann exists with pw1 and the role user; a second create_user for ann with
\* another password, another role and the fresh invite was refused, and the
\* invite is still unused
C27_Witness ==
    \E p \in Procs :
        /\ ucall[p] = [fn |-> "create_user", username |-> "ann", password |-> "pw2",
                       role |-> "admin", code |-> <<"inv1">>]
        /\ ures[p] = Returns(FALSE, "Username already exists")
        /\ users["ann"].pw_hash = BcryptHash("pw1") /\ users["ann"].role = "user"
        /\ invites["inv1"].is_active /\ invites["inv1"].used_by = <<>>

\* ------------------------------------------------------------------ C28
\* The files of the directory the loader is expected to load: valid JSON
\* objects with every required field whose prompt is inline or names a prompt
\* file that is there.
Loadable(kind, prompts) ==
    \/ kind \in {"inline", "you_file"}
    \/ kind = "by_file" /\ "p.txt" \in prompts
Loaded == pout[1]
LoaderDone == pfn = "load_characters" /\ pout # <<>>
Uncached(fs, id) == get_character(fs, KeyedGet(id, <<>>))
\* a contributing file of id holds other content than in fs0 under the
\* fingerprint it had in fs0
EditUnseen(fs0, fs, id) ==
    \E q \in Paths :
        /\ Contributes(fs0, id, q)
        /\ Stat(fs, q).content # Stat(fs0, q).content
        /\ file_fingerprint(fs, q) = file_fingerprint(fs0, q)
\* C29 as stated: whenever fetch_character_private(id) returns, the record it
\* returns is the private record the service sends for an unconditional GET
\* at the time of the call's last request.
C29_Original ==
    [][\A id \in CharIds :
          (CachedFetch(id) /\ fres'.kind = "return") =>
              /\ Uncached(files, id).status = 200
              /\ fres'.value = <<Uncached(files, id).body>>]_vars
\* C29 as the code has it: whenever fetch_character_private(id) returns, the
\* record it returns is the private record of an unconditional GET at the
\* time of its last request, unless since the response that filled the cache
\* a contributing file was given other content under the same fingerprint
\* (same size, same second of modification): then the call returns the record
\* of that earlier response.
C29_Amended ==
    [][\A id \in CharIds :
          (CachedFetch(id) /\ fres'.kind = "return") =>
              /\ Uncached(files, id).status = 200
              /\ \/ fres'.value = <<Uncached(files, id).body>>
                 \/ /\ cachedAt[id] # <<>>
                    /\ EditUnseen(cachedAt[id][1], files, id)
                    /\ fres'.value = <<Uncached(cachedAt[id][1], id).body>>]_vars
\* the prompt file was rewritten a second after the record of cat was cached:
\* the next call was answered 200 and returned the new prompt
C29_Witness ==
    /\ fpc = "done" /\ fid = "cat" /\ fres.kind = "return"
    /\ cachedAt["cat"] # <<>>
    /\ files[PromptPath].content = "P2"
    /\ files[PromptPath].mtime = 2
    /\ Len(answers) = 1 /\ answers[1].status = 200
    /\ gets[1].inm # <<>>
    /\ fres.value[1].prompts.system = "P2"

\* ------------------------------------------------------------------ C30
\* no call of fetch_characters_list is in progress
NoListCall == \A p \in Procs : lpc[p] \in {"idle", "done"}
\* the revision the persisted payload is of (0: an empty list)
PayloadRev == IF JsonLoads(payloadFile[1]) = <<>> THEN 0 ELSE JsonLoads(payloadFile[1])[1].rev
\* C30: once every call of fetch_characters_list has returned or raised, an
\* etag is persisted only with a payload, and the payload is of the revision
\* the etag names or, for an empty list, of the same response: the etag file
\* never names a revision newer than the payload file.
C30_EtagWithPayload ==
    (NoListCall /\ etagFile # <<>>) =>
        /\ payloadFile # <<>>
        /\ PayloadRev # 0 => etagFile[1].list <= PayloadRev

\* ------------------------------------------------------------------ C31
\* C31: the ETag and the record stored for an id come from the same
\* response: a step that stores another (non-empty) ETag for an id stores the
\* body of the response that carried it as the record of that id.
C31_SameResponse ==
    [][\A id \in CharIds :
          (CHAR_PRIVATE_ETAGS'[id] # CHAR_PRIVATE_ETAGS[id] /\ EtagTruthy(CHAR_PRIVATE_ETAGS'[id])) =>
              /\ JsonParses(answers'[Len(answers')].text)
              /\ CHAR_PRIVATE_CACHE'[id] = <<Json(answers'[Len(answers')].text)>>]_vars

\* ------------------------------------------------------------------ C32
\* C32: the end of one chat session does not disable the others: the
\* requests of a session that is still active, to fetch characters and to
\* stream a reply, are sent whatever sessions have ended before.
C32_OthersKeepWorking ==
    \A s \in Sessions :
        sess[s].state = "active" => sess[s].last \notin {"fetch_failed", "chat_error"}

\* ------------------------------------------------------------------ C33
\* C33: the fallback request is made only when nothing was read or yielded,
\* and what the caller receives is either streamed deltas with no fallback
\* request made, or the single reply of the fallback and nothing else.
C33_DeltasOrFallback ==
    /\ spc = "fallback" => (yields = <<>> /\ nlines = 0)
    /\ Len(posts) = 2 => (nlines = 0 /\ (yields = <<>> \/ yields = <<fb.reply>>))
    /\ yields # <<>> =>
          \/ Len(posts) = 1 /\ fb = NoFallback
          \/ Len(posts) = 2 /\ fb.state = "reply" /\ yields = <<fb.reply>>

\* deltas were streamed and reading then failed: no fallback request was made
C33_Witness ==
    /\ Len(yields) = 2
    /\ streamErr = "transport"
    /\ spc = "raised"
    /\ Len(posts) = 1
    /\ fb = NoFallback

\* ------------------------------------------------------------------ C36
\* C36: when the streaming request fails with an HTTP error status and the
\* fallback succeeds with a body that has no reply field, stream_chat
\* completes normally having yielded nothing and raises nothing: the caller
\* shows no error and records the empty reply.
C36_NoReplyField ==
    fb.state = "noreply" =>
        /\ streamErr = "status"
        /\ spc = "done"
        /\ yields = <<>>
        /\ raised = None
        /\ ~UserSeesChatError

C36_Witness ==
    /\ fb.state = "noreply"
    /\ posts = <<Payload("m1", TRUE), Payload("m1", FALSE)>>
    /\ spc = "done"
    /\ yields = <<>>
    /\ raised = None

\* ------------------------------------------------------------------ C34
\* every event's content starts with the content of the event before it
Cumulative(ev) == \A i \in 2..Len(ev) : StartsWith(ev[i], ev[i - 1])
\* "".join(parts)
RECURSIVE Joined(_)
Joined(parts) == IF parts = <<>> THEN <<>> ELSE Head(parts) \o Joined(Tail(parts))
\* C34: for a stream whose events carry cumulative content, each starting
\* with the content of the event before it, the deltas yielded so far,
\* joined, are the content of the last event read: nothing repeated, nothing
\* lost.
C34_DeltasRebuild ==
    (Cumulative(events) /\ events # <<>>) =>
        /\ Joined(yields) = events[Len(events)]
        /\ last = events[Len(events)]

\* three events, the second repeating the first, and the stream closed
C34_Witness ==
    /\ spc = "done"
    /\ nlines = 3
    /\ events = <<Hi, Hi, HiThere>>
    /\ yields = <<Hi, <<2>>>>

\* ------------------------------------------------------------------ C35
\* the request r asked again with view v and If-None-Match inm
Reasked(r, v, inm) == [r EXCEPT !.view = v, !.inm = inm]
\* C35: the ETag of a detail response does not depend on the view: with the
\* files unchanged, a request for either view of the character that sends
\* the ETag of a detail response as If-None-Match is answered 304 with that
\* same ETag, whatever view the response was of.
C35_ETagAnyView ==
    (req.ep = "detail" /\ resp.status \in {200, 304}) =>
        \A v \in {"public", "private"} :
            Handle(files, Reasked(req, v, resp.etag)) = NotModified(resp.etag[1])

\* a private request that sent the ETag kept from an earlier response was
\* answered 304, and the public view of the character has that ETag
C35_Witness ==
    /\ req.ep = "detail" /\ req.id = "cat" /\ req.view = "private"
    /\ req.inm # <<>> /\ req.inm = held
    /\ resp.status = 304
    /\ Handle(files, Reasked(req, "public", <<>>)).etag = held
    /\ Handle(files, Reasked(req, "public", <<>>)).body # Handle(files, Reasked(req, "private", <<>>)).body

====
